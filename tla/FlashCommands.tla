---------------------------- MODULE FlashCommands ----------------------------
(***************************************************************************)
(* The commands CNTCommand sends over USB, the second part: see            *)
(* UsbCommands.  Most are the flash commands of the sorting code, 06 F6.   *)
(* Skips stands here for m_isSQL, which sends the commands of the sequence *)
(* buffer instead, and for settings that leave a reset or a table out.     *)
(***************************************************************************)
EXTENDS DriverCommands

(***************************************************************************)
(* Workarounds, info blocks, scans of the read window                      *)
(***************************************************************************)
ST_YMTC_Workaround == F6({\h0c})
NT_GetWriteInfoBlockRand == Typed(Guarded(In(Vendor({\h64}, {\h00}))))
NT_SetWriteInfoBlockRand == Typed(Guarded(Out(Vendor({\h65}, {\h00}))))
NT_ScanWindow == Guarded(In(Vendor({\hce}, {\h00})))
NT_GetFlashExtendID_1040 == Guarded(In(Vendor({\h56}, {\h00})))
NT_GetIBBuf == Guarded(In(Vendor({\h1c}, {\h00})))

(***************************************************************************)
(* Power, tables, direct reads and writes                                  *)
(***************************************************************************)
ST_TurnFlashPower == F6({\h08})
ST_GetB85T_OTP_Table == InOut(F6({\hbf}))
ST_GetSetRetryTable == Skips(Tries(2, InOut(F6({\hbf}))))
ST_DirectRead == In(F6({\h05}))
ST_DirectWrite == Out(F6({\h04}))
ST_FlashGetID == Skips(In(F6({\h01})))
ST_AssignFTAforD1Read == F6({\h16})
ST_GetInfoBlock == In(F6({\h17}))
ST_2A_GetBadBlockInfo == In(F6({\h2a}))
ST_ReliabilityTestingDirectWrite == Out(F6({\hee}))
ST_GetCodeVersionDate == In(F6({\h00}))
ST_FlashReset == Skips(F6({\h09}))
ST_MarkBadBlock == F6({\h07})
ST_ReliabilityTestingDirectRead == F6({\hef})
ST_DirectErase == F6({\h03})
ST_GetBootcodeVersion == In(F6({\h03}))
ST_SetClock == F6({\h0a})
ST_SetSram == F6({\h0b})
ST_2PlaneCopyBackWrite == F6({\h62})
ST_WriteOneBlock == Out(F6({\h60}))
ST_ReadOneBlock == F6({\h61, \h63})
ST_EraseAll == F6({\h0e})

(***************************************************************************)
(* Polls, pages read and written                                           *)
(***************************************************************************)
ST_PollStatus == Tries(2, In(F6({\h55})))
ST_2311TranSRam == InOut(F6({\h57}))
ST_TranSRamThroughFlash == InOut(F6({\h57}))
ST_PollData == In(F6({\h56}))
ST_DirectPageReadByConv == Tries(2, In(F6({\hff})))
ST_DirectPageRead == Skips(Tries(2, In(F6({\hfb, \hff}))))
ST_MicroSetRandomize == F6({\had})
ST_DirectPageRead_2 == Skips(Tries(2, In(F6({\hfb, \hff}))))
ST_MarkBad == Tries(2, F6({\hef}))
ST_DirectPageWriteBufferMode == Tries(2, Out(F6({\hed})))
ST_WriteIB == Skips(Tries(2, InOut(F6({\hef}))))
ST_SetBlockSeed == Tries(2, F6({\ha9}))
ST_DirectPageWriteByConv == Tries(2, InOut(F6({\hef})))
ST_DirectPageWrite == Skips(Tries(2, InOut(F6({\heb, \hef}))))
ST_BlockWriteByPage == Tries(2, InOut(F6({\hef})))

(***************************************************************************)
(* Blocks written, SRAM, copy back                                         *)
(***************************************************************************)
ST_DirectOneBlockWrite == Skips(Tries(3, F6({\hec, \hee})))
ST_D3PageWriteRead == Skips(InOut(F6({\hec, \hee})))
ST_DumpSRAM == Forced(In(Vendor({\h05}, {\h52})))
ST_WriteSRAM == Forced(Out(Vendor({\h05}, {\h52})))
\* To a handle it goes past NT_CustomCmd_Phy, without its bank.
ST_TestINOUT == [InOut(F6({\ha0})) EXCEPT !.raw = {1, 2}]
ST_CheckDRY_DQS == Tries(2, F6({\h06}))
ST_CopyBackWiteD3 == Out(F6({\hcf}))
ST_GetFixtureHubID == In(F6({\h30}))
ST_E2NAMEGetEarlyTable == In(F6({\hba}))
ST_CopyBackWite == Out(F6({\hcf}))

(***************************************************************************)
(* Features, status, and what the page and sector maps say                 *)
(***************************************************************************)
NT_SetMediaChange == Vendor({\h10}, {\h00})
ST_SetFeature == Unforced(In(F6({\haf})))
ST_GetFeature == In(F6({\hae}))
ST_GetProgramCountStatus1 == Tries(2, In(F6({\h50})))
ST_GetProgramCountStatus == Tries(2, In(F6({\h50})))
ST_GetReadWriteStatus == Skips(Tries(2, In(F6({\hbc}))))
ST_DirectOneBlockRead == Skips(Tries(2, In(F6({\hfc, \hfe}))))
ST_SectorBitMapGetSet == Tries(2, InOut(F6({\hbe})))
ST_PageBitMapGetSet == Skips(Tries(2, InOut(F6({\hbd}))))
ST_PBADieGetSet == In(F6({\h02}))

(***************************************************************************)
(* Modes, block erase, bad columns, patterns and parameters                *)
(***************************************************************************)
ST_HynixTLC16ModeSwitch == Skips(F6({\h20}))
ST_DirectOneBlockErase == Skips(Tries(2, F6({\hce})))
ST_Set_Flash_All_Bad_Column_Collect == F6({\h10})
ST_Set_DummyRead == F6({\h11})
ST_BadColumn_Read == F6({\h12})
ST_Set_Get_BadColumn == Tries(2, InOut(F6({\hab})))
ST_SetPatternTable == Skips(Tries(2, Out(F6({\haa}))))
ST_SetGet_Parameter == Tries(2, InOut(F6({\hbb})))
ST_SetQuickFindIBBuf == Out(F6({\hcc}))
ST_QuickFindIB == In(F6({\hcd}))

(***************************************************************************)
(* Legacy and toggle modes, flash parameters, firmware                     *)
(***************************************************************************)
ST_T2LAndL2T == Each(F6({\had}))
ST_ModifyFlashPara == Each(F6({\had}))
ST_CheckModifyFlashPara == In(F6({\h49}))
ST_FWInit == F6({\h41})
ST_SetGetPara == In(F6({\h44}))
ST_SetSD_D1 == F6({\h45})
ST_DisableIPR == F6({\ha3})
ST_2306_SetGet_Conversion == In(F6({\hb1}))

(***************************************************************************)
(* Bytes written and read, the fuses of a flash                            *)
(***************************************************************************)
ST_OpenExtentByteWrite == F6({\h42})
ST_OpenExtentByteRead == In(F6({\h42}))
ST_CmdWriteFlashFuse == Out(F6({\hab}))
ST_CmdGetFlashFuse == In(F6({\hac}))
CmdWriteFlashFuseAD == F6({\had})
ST_CmdFDReset == Skips(F6({\h09}))
ST_CmdWriteFlashFuse_GWK == Out(F6({\hab}))
ST_CmdGetFlashFuse_GWK == In(F6({\h42}))
ST_CmdGetFlashFuse2_GWK == In(F6({\h41}))
ST_FlashGetID_GWK == In(F6({\h01}))
ST_GetSRAM_GWK == In(Vendor({\h05}, {\h41}))

(***************************************************************************)
(* Addresses, read distributions, identification                           *)
(***************************************************************************)
ST_FAddrGet == Typed(In(F6({\h21})))
ST_FAddrSet == Typed(F6({\h20}))
NT_Send_Dist_read == Typed(In(Vendor({\h9e}, {\h00})))
ST_Send_Dist_read == Typed(Skips(In(F6({\h46}))))
ST_Send_Dist_readST == Typed(In(F6({\h13})))
NT_Toggle2LagcyReadId == In(F6({\h01}))
ST_FAddrReset == Typed(F6({\h22}))
ST_GetUnitID == In(F6({\h43}))
ST_GetTSBIdentificationTable == In(F6({\ha8}))
ST_GetTSBRevisionCode == In(F6({\ha2}))
ST_GetMicronUnitID == In(F6({\ha5}))
ST_GetMicroParePage == In(F6({\ha6}))

(***************************************************************************)
(* Scans, seeds, the DLL of the controller                                 *)
(***************************************************************************)
ST_ScanBadBlock == In(F6({\h14}))
ST_SetSeed == F6({\ha7})
ST_SetToggle1020 == In(F6({\h80}))
ST_ScanPasswindow == In(F6({\h81}))
ST_CheckU3Port == In(F6({\h82}))
ST_GetHWMDLL90Degree == In(F6({\h83}))
ST_SetWindowMidValue == F6({\h84})
ST_SetDegree == F6({\h85})

(***************************************************************************)
(* Levels, features, power                                                 *)
(***************************************************************************)
ST_XNOR_or_Level_Indicated == In(F6({\h90}))
ST_APGetSetFeature == Skips(In(F6({\had})))
ST_Set_pTLCMode == Skips(F6({\ha1}))
TPowerResetAll == Scsi(\hcb)
TPowerOnOff == Scsi(\hcb)
ST_DetectVoltage == F6({\h05})
ST_2309CheckUECC == F6({\hc0})
ST_SetPageSeed == F6({\h04})

(***************************************************************************)
(* The SD tester                                                           *)
(***************************************************************************)
SD_TesterGetInfo == In(Vendor({\hf0}, {\h74}))
SD_TesterForceToBoot == In(Vendor({\hf0}, {\h65}))
SD_TesterISPBurner == Out(Vendor({\hf0}, {\hc1}))
SD_TesterJumpBurner == Vendor({\hf0}, {\hc1})
SD_TesterGetFlashID == WhilePassed(InOut(Vendor({\hf0}, {\h79})))

(***************************************************************************)
(* Counters, retry tables                                                  *)
(***************************************************************************)
NT_ReadCount1_2307 == Forced(Guarded(In(Vendor({\h05}, {\h52}))))
NT_ISP_ReadTarget == In(Vendor({\hc1}, Arg))
GetTemperature == In(F6({\h45}))
ST_Soft_bit_dump_read == In(F6({\hfd}))
ST_Get_Flash_status == Skips(In(F6({\h19})))
NT_Set_Preformat_BlockRatio == Forced(Out(Vendor({\h25}, Arg)))
NT_GetD3RRT == In(Vendor({\h52}, {\h01}))

(***************************************************************************)
(* The sequence buffer of SQL commands                                     *)
(***************************************************************************)
ST_Init_SQL_Buffer == In(Vendor({\hfa}, {\h01}))
WriteDDR == Out(Vendor({\hfc}, {\h00}))
TrigerDDR == Out(Vendor({\hfe}, {\h00}))
ReadDDR == In(Vendor({\hfd}, Arg))

(***************************************************************************)
(* Retry tables by feature, and the firmware's own error checks            *)
(***************************************************************************)
ST_SetGet_RetryTableByFeature == InOut(F6({\hac}))
NT_GetFwAutoCheckError == In(Vendor({\h89}, {\h00}))
NT_GetFwErrorHandleTag == In(Vendor({\ha1}, {\h00}))
NT_ScanMarkBad == Guarded(In(Vendor({\hc1}, Arg)))
NT_ScanMarkBad_FW == Guarded(In(Vendor({\h89}, {\h02})))
NT_GetFlashSizeInfo == Guarded(In(Vendor({\h89}, {\h01})))

\* The commands above.
StCommands ==
  { ST_YMTC_Workaround, NT_GetWriteInfoBlockRand, NT_SetWriteInfoBlockRand, NT_ScanWindow,
    NT_GetFlashExtendID_1040, NT_GetIBBuf, ST_TurnFlashPower, ST_GetB85T_OTP_Table,
    ST_GetSetRetryTable, ST_DirectRead, ST_DirectWrite, ST_FlashGetID, ST_AssignFTAforD1Read,
    ST_GetInfoBlock, ST_2A_GetBadBlockInfo, ST_ReliabilityTestingDirectWrite,
    ST_GetCodeVersionDate, ST_FlashReset, ST_MarkBadBlock, ST_ReliabilityTestingDirectRead,
    ST_DirectErase, ST_GetBootcodeVersion, ST_SetClock, ST_SetSram, ST_2PlaneCopyBackWrite,
    ST_WriteOneBlock, ST_ReadOneBlock, ST_EraseAll, ST_PollStatus, ST_2311TranSRam,
    ST_TranSRamThroughFlash, ST_PollData, ST_DirectPageReadByConv, ST_DirectPageRead,
    ST_MicroSetRandomize, ST_DirectPageRead_2, ST_MarkBad, ST_DirectPageWriteBufferMode,
    ST_WriteIB, ST_SetBlockSeed, ST_DirectPageWriteByConv, ST_DirectPageWrite,
    ST_BlockWriteByPage, ST_DirectOneBlockWrite, ST_D3PageWriteRead, ST_DumpSRAM, ST_WriteSRAM,
    ST_TestINOUT, ST_CheckDRY_DQS, ST_CopyBackWiteD3, ST_GetFixtureHubID, ST_E2NAMEGetEarlyTable,
    ST_CopyBackWite, NT_SetMediaChange, ST_SetFeature, ST_GetFeature, ST_GetProgramCountStatus1,
    ST_GetProgramCountStatus, ST_GetReadWriteStatus, ST_DirectOneBlockRead,
    ST_SectorBitMapGetSet, ST_PageBitMapGetSet, ST_PBADieGetSet, ST_HynixTLC16ModeSwitch,
    ST_DirectOneBlockErase, ST_Set_Flash_All_Bad_Column_Collect, ST_Set_DummyRead,
    ST_BadColumn_Read, ST_Set_Get_BadColumn, ST_SetPatternTable, ST_SetGet_Parameter,
    ST_SetQuickFindIBBuf, ST_QuickFindIB, ST_T2LAndL2T, ST_ModifyFlashPara,
    ST_CheckModifyFlashPara, ST_FWInit, ST_SetGetPara, ST_SetSD_D1, ST_DisableIPR,
    ST_2306_SetGet_Conversion, ST_OpenExtentByteWrite, ST_OpenExtentByteRead,
    ST_CmdWriteFlashFuse, ST_CmdGetFlashFuse, CmdWriteFlashFuseAD, ST_CmdFDReset,
    ST_CmdWriteFlashFuse_GWK, ST_CmdGetFlashFuse_GWK, ST_CmdGetFlashFuse2_GWK,
    ST_FlashGetID_GWK, ST_GetSRAM_GWK, ST_FAddrGet, ST_FAddrSet, NT_Send_Dist_read,
    ST_Send_Dist_read, ST_Send_Dist_readST, NT_Toggle2LagcyReadId, ST_FAddrReset, ST_GetUnitID,
    ST_GetTSBIdentificationTable, ST_GetTSBRevisionCode, ST_GetMicronUnitID,
    ST_GetMicroParePage, ST_ScanBadBlock, ST_SetSeed, ST_SetToggle1020, ST_ScanPasswindow,
    ST_CheckU3Port, ST_GetHWMDLL90Degree, ST_SetWindowMidValue, ST_SetDegree,
    ST_XNOR_or_Level_Indicated, ST_APGetSetFeature, ST_Set_pTLCMode, TPowerResetAll,
    TPowerOnOff, ST_DetectVoltage, ST_2309CheckUECC, ST_SetPageSeed, SD_TesterGetInfo,
    SD_TesterForceToBoot, SD_TesterISPBurner, SD_TesterJumpBurner, SD_TesterGetFlashID,
    NT_ReadCount1_2307, NT_ISP_ReadTarget, GetTemperature, ST_Soft_bit_dump_read,
    ST_Get_Flash_status, NT_Set_Preformat_BlockRatio, NT_GetD3RRT, ST_Init_SQL_Buffer, WriteDDR,
    TrigerDDR, ReadDDR, ST_SetGet_RetryTableByFeature, NT_GetFwAutoCheckError,
    NT_GetFwErrorHandleTag, NT_ScanMarkBad, NT_ScanMarkBad_FW, NT_GetFlashSizeInfo }

Commands == NtCommands \cup StCommands \cup RawCommands

=============================================================================
