----------------------------- MODULE UsbCommands -----------------------------
(***************************************************************************)
(* The commands CNTCommand sends over USB, the first part: one definition  *)
(* per function, with its name, that says what BankLink needs of it.  A    *)
(* command is a record of the first bytes of its CDB and of how the        *)
(* function issues it; lengths, addresses, timeouts, and what the buffer   *)
(* holds are left out.  The modifiers around a CDB are in the order of the *)
(* code: Guarded(Forced(...)) checks its arguments before it sets the      *)
(* flag, Forced(Guarded(...)) after.                                       *)
(*                                                                         *)
(* A function that calls others of these, or sends only what others send,  *)
(* is a sequence of their commands and has no definition of its own.       *)
(***************************************************************************)
EXTENDS Naturals

CONSTANT
    Arg     \* the values of a byte of the CDB that is an argument

ArgAssumption == Arg \subseteq 0 .. 255

\* The most rounds of a loop over chips that are told apart.
MaxChips == 2

(***************************************************************************)
(* CDBs: the values of CDB[0], CDB[1] and CDB[2].                          *)
(***************************************************************************)
Command(cdbs) ==
    [cdb |-> cdbs, direc |-> "none",
     times |-> 1, until |-> "never",    \* issued at most so often, until it passed or failed
     guarded |-> FALSE,                 \* returns 1 on an argument, issuing nothing
     skips |-> FALSE,                   \* returns on a setting, issuing nothing
     force |-> "kept",                  \* what it does to _ForceNoSwitch first
     late |-> FALSE,                    \* the guard comes after that
     typed |-> FALSE, byPath |-> FALSE, \* bTypes other than 0 and 1: sends none; sends for 2
     raw |-> {},                        \* bTypes for which it goes past NT_CustomCmd_Phy
     endsBanking |-> FALSE]

Vendor(c1s, c2s) == Command({\h06} \X c1s \X c2s)
F6(c2s) == Vendor({\hf6}, c2s)
U3(c1, c2) == Command({<<\hff, c1, c2>>})
Scsi(c0) == Command({<<c0, \h00, \h00>>})       \* its other bytes are left out
Sectors(c0, c1) == Command({c0} \X {\h00} \X Arg \cup {\h06} \X {c1} \X Arg)

In(c) == [c EXCEPT !.direc = "in"]
Out(c) == [c EXCEPT !.direc = "out"]
InOut(c) == [c EXCEPT !.direc = "in or out"]

\* The loop that ends when ST_CheckResult accepts the result, the one that ends
\* with the first failure, and the one that goes on.
Tries(n, c) == [c EXCEPT !.times = n, !.until = "passed"]
WhilePassed(c) == [c EXCEPT !.times = MaxChips, !.until = "failed"]
Each(c) == [c EXCEPT !.times = MaxChips]

Guarded(c) == [c EXCEPT !.guarded = TRUE]
Skips(c) == [c EXCEPT !.skips = TRUE]
Forced(c) == [c EXCEPT !.force = "set", !.late = c.guarded]
Unforced(c) == [c EXCEPT !.force = "cleared"]
Typed(c) == [c EXCEPT !.typed = TRUE]
ByPath(c) == [c EXCEPT !.byPath = TRUE]
EndsBanking(c) == [c EXCEPT !.endsBanking = TRUE]

(***************************************************************************)
(* Device data, card reader, and the configuration of an ISP               *)
(***************************************************************************)
NT_GetFW_CodeAddr == Guarded(In(Vendor({\hdd}, {\h00})))
NT_Get_CharInfo == Guarded(In(Vendor({\h05}, {\h52})))
NT_Get_FAB == Guarded(In(Vendor({\h05}, {\h52})))
NT_BootRomDisable_EDO == Vendor({\h23}, {\h00})
NT_FlashBitConfiguration == In(Vendor({\h57}, {\h43}))
NT_ModeSense == Guarded(In(Scsi(\h5a)))
NT_CardReaderSend == Guarded(Out(Vendor({\h36}, {\h70})))
NT_CardReader_FW_init == Guarded(In(Vendor({\h36}, {\h5d})))
NT_CardReader_PC2RDR_Status == Guarded(Out(Vendor({\h36}, {\h70})))
NT_CardReader_RDR2PC_Status == Guarded(In(Vendor({\h36}, {\h71})))
NT_CardReader_ATR_Status == Guarded(In(Vendor({\h36}, {\h5e})))
NT_CardReaderRead == Guarded(In(Vendor({\h36}, {\h71})))
NT_GetOPT == Guarded(In(Vendor({\h05}, {\h50})))
NT_IspConfigISP_CP == InOut(Vendor({\hee}, Arg))
NT_IspConfigISP_CP30 == InOut(Vendor({\hee}, Arg))
NT_IspConfigISP == InOut(Vendor({\hb1}, Arg))

(***************************************************************************)
(* Disk operations, write protection, capacity, sectors                    *)
(***************************************************************************)
NT_Password_Op == Guarded(Out(Scsi(\h0e)))
NT_GetDieInformat == In(Vendor({\h05}, {\h44}))
NT_Disk_Op == Guarded(In(Scsi(\h0d)))
NTU3_U3PRA__Generate_Random_number == Guarded(In(U3(\he2, \h00)))
NTU3__Read_Page == Guarded(In(U3(\h61, \h00)))
NTU3__Scalable_Read_Page == Guarded(In(U3(\h06, \h01)))
NT_read_sec2blks == Guarded(In(Sectors(\h28, \h0a)))
NT_SetWriteProtect == Vendor({\h31}, Arg)
NT_BurnerTest1Block == Vendor({\h31}, {\h00})
NT_GetWriteProtect == In(Scsi(\h5a))
NT_SetCCIDName == Guarded(Vendor({\h83}, {\h00}))
NT_GetDriveCapacity == Guarded(In(Scsi(\h25)))
NT_sRAM_readwrite_sectors == Guarded(InOut(Vendor({\h20, \h21}, {\h00})))
NT_write_blks == Typed(Guarded(Out(Sectors(\h2a, \h0b))))

(***************************************************************************)
(* Preformat, unlocking, media changes, the finger print sensor            *)
(***************************************************************************)
NT_USB23Switch == Vendor({\hcd}, Arg)
NT_EMMC_Preformat_GenH == Vendor({\h35}, Arg)
NT_Direct_Preformat_GenH == Vendor({\h35}, Arg)
NT_Unlock == Vendor({\h1d}, {\h00})
NT_Direct_Preformat_GenH6 == Typed(EndsBanking(Out(Vendor({\h09}, Arg))))
NT_MediaChange == Vendor({\h30}, {\h00})
NT_FingerSwitch_Start == Vendor({\hf2}, {\hd0})
NT_FingerSwitch_Process == Vendor({\hf2}, {\ha1})
NT_FingerSwitch_Result == Vendor({\hf2}, {\ha3})
NT_StartStopDrv == Scsi(\h1b)

(***************************************************************************)
(* Flash IDs, info blocks, inquiry and sense                               *)
(***************************************************************************)
NT_GetFlashExtendID == Skips(Forced(Tries(2, In(Vendor({\h56}, Arg)))))
NT_ReadGroupInfo == Typed(Guarded(In(Vendor({\h95}, {\h02}))))
NT_ReadPage_All == Typed(ByPath(Guarded(Forced(In(Vendor({\h05}, Arg))))))
NT_WriteInfoBlock == Typed(Guarded(Out(Vendor({\h06}, {\h01}))))
NT_WriteInfoBlock_K == Typed(Guarded(Out(Vendor({\h06}, {\h01}))))
NT_WriteInfoBlock_23 == Typed(Guarded(Out(Vendor({\h06}, {\h04}))))
NT_WriteInfoBlock_23_K == Typed(Guarded(Out(Vendor({\h06}, {\h04}))))
NT_WriteTempInfoBlock == Typed(Guarded(Out(Vendor({\h06}, {\h03}))))
NT_Inquiry_All == Typed(ByPath(Guarded(In(Scsi(\h12)))))
NT_GetErrCEInfo30 == Guarded(In(Vendor({\ha4}, {\h00})))
NT_RequestSense == Guarded(In(Scsi(\h03)))

(***************************************************************************)
(* Switching to and from the ISP, the burner and the boot code             *)
(***************************************************************************)
NT_JumpISPModeDisconnect == Vendor({\hbf}, {\h00})
NT_JumpISPModeDisconnect_Security == Vendor({\hbf}, {\h01})
NT_JumpISPMode63 == Vendor({\hbf}, {\h01})
NT_JumpFWISPMode == Vendor({\hbf}, {\h00})
NT_JumpISPMode30 == Vendor({\hb3}, {\h00})
NT_JumpISPMode == Vendor({\hb3}, {\h00})
NT_JumpBootCode == Vendor({\hb3}, Arg)
NT_JumpBootCodeByST == Vendor({\hb3}, Arg)
NT_JumpISPMode_2312Controller == Vendor({\hb3}, {\h09})
NT_VerifyBurner == Vendor({\hb2}, {\h00})
NT_VerifyFW == Vendor({\hb2}, Arg)
NT_BurnerVerifyFlash30 == In(Vendor({\h09}, {\h00}))

(***************************************************************************)
(* Loading firmware through the ISP and erasing for it                     *)
(***************************************************************************)
NT_GetISPStatus30 == Guarded(In(Vendor({\hb0}, {\h00})))
NT_GetISPStatus == Guarded(Forced(In(Vendor({\hb0}, {\h00}))))
NT_GetCommandSequence == Guarded(Forced(In(Vendor({\h2f}, {\h00}))))
NT_TransferISPData == Forced(InOut(Vendor({\hb1, \hb2}, Arg)))
NT_BufferReadISPData == Forced(InOut(Vendor({\h21}, Arg)))
NT_BufferReadISPData30 == InOut(Vendor({\hb2}, Arg))
NT_ISPSwitchMode == Typed(ByPath(Forced(Vendor({\hb3}, Arg))))
NT_ISPGetFlash == Guarded(In(Vendor({\hb5}, {\h00})))
NT_ISPGetConnectType == Guarded(In(Vendor({\h05}, {\h52})))
NT_ISPTestConnect == Guarded(In(Vendor({\h06}, {\h55})))
NT_ISP_EraseAllBlk30 == Vendor({\hb7}, {\h00})
NT_ISP_Bics3WaferErase == Vendor({\h01}, {\h00})
NT_ISP_EraseAllBlk == Vendor({\hb7}, {\h00})
NT_ISP_EraseAllBlk_2312Controller == Guarded(InOut(Vendor({\hbf}, {\h00})))

(***************************************************************************)
(* Reading IDs and pages, and the legacy and toggle modes of the flash     *)
(***************************************************************************)
NT_GetIDBlk == In(Vendor({\h03}, {\h00}))
NT_ISPIssueReadPage == In(Vendor({\h03}, {\h00}))
NT_ISPIssueConfigFalsh == Out(Vendor({\hb4}, {\h00}))
NT_QuickWrite30 == Vendor({\h86}, Arg)
NT_TuningDisk == In(Scsi(\h0d))
NT_Toggle2LegacyReadId == In(F6({\h01}))
NT_Toggle2LegacyGetSupportId == Guarded(In(F6({\hb0})))
NT_Toggle2LegacyDetectBitNumber == In(F6({\h01}))
NT_Toggle2Lagcy == F6({\h45})
NT_Legacy2Toggle == F6({\h46})
NT_T2LAndL2T_Rescue == F6({\hae})
NT_T2LAndL2T == WhilePassed(F6({\h45, \had}))
NT_GetRetryTablePass == In(Vendor({\h87}, {\h00}))
NT_SortingCodePowerOn == F6({\h08})

(***************************************************************************)
(* Direct erases, writes and reads, and writing info blocks                *)
(***************************************************************************)
NT_Direct_Erase == Vendor({\h01}, {\h00})
NT_Direct_Write_Page2048 == Out(Vendor({\h02}, {\h00}))
NT_Direct_Write_Page == Out(Vendor({\h02}, {\h00}))
NT_Direct_Read_Page == In(Vendor({\h03}, {\h00}))
NT_U3_WriteInfoBlock == Guarded(Out(Vendor({\h06}, {\h02})))

(***************************************************************************)
(* U3: domains, cipher suites, keys, protected pages                       *)
(***************************************************************************)
NTU3_Domain_Set_Flags == Out(U3(\h26, \h00))
NTU3_Domain_Change_Type == Out(U3(\h25, \h00))
NTU3SS__Set_Current_Cipher_Suite == U3(\h80, \h00)
NTU3SS__RSA_Get_Device_Public_Key == In(U3(\h81, \h00))
NTU3SS__RSA_Set_Host_Public_Key == Out(U3(\h82, \h00))
NTU3SS__RSA_Set_Host_Random_Challenge == Out(U3(\h83, \h00))
NTU3SS__RSA_Verify_Device_Public_Key == In(U3(\h84, \h00))
NTU3SS__RSA_Get_Device_Random_Challenge == In(U3(\h85, \h00))
NTU3SS__RSA_Verify_Host_Public_Key == Out(U3(\h86, \h00))
NTU3SS__RSA_Set_Host_Secret_Number == Out(U3(\h87, \h00))
NTU3SS__RSA_Get_Device_Secret_Number == In(U3(\h88, \h00))
NTU3SS__Start_Secure_Access == U3(\h8b, \h00)
NTU3SS__Get_Secure_Session_Type == In(U3(\h8a, \h00))
NTU__Read_Protected_Page == Guarded(In(U3(\h63, \h00)))
NTU__Write_Protected_Page == Guarded(Out(U3(\h62, \h00)))
NTU__Set_Read_Password == Guarded(U3(\h65, \h00))
NTU__Set_Write_Password == Guarded(U3(\h64, \h00))

(***************************************************************************)
(* U3: the private area                                                    *)
(***************************************************************************)
NTU3_Get_Area_Parameters == Guarded(In(U3(\ha0, \h00)))
NTU3_U3PRA__Configure_Private_Area == Guarded(Out(U3(\ha2, \h00)))
NTU3_U3PRA__Configure_Private_Area_2 == Guarded(Out(U3(\ha2, \h00)))
NTU3_U3PRA__Configure_2nd_Password == Guarded(Out(U3(\ha8, \h00)))
NTU3_Ready_Not_Ready_Pulse == U3(\h00, \h01)
NTU3_Open == Guarded(Out(U3(\ha4, \h00)))
NTU3_Close == U3(\ha5, \h00)
NTU3__Write_Page == Guarded(Out(U3(\h60, \h00)))
NTU3__Scalable_Write_Page == Guarded(Out(Vendor({\h0b}, Arg)))
NTU3_Get_Device_Configuration == Guarded(In(U3(\h21, \h00)))
NTU3_Query_Service == Guarded(In(U3(\h00, \h00)))

(***************************************************************************)
(* Bad blocks, one time programmed data, LED                               *)
(***************************************************************************)
NT_Burner_ScanBAD == In(Vendor({\h08}, Arg))
NT_Get_RDYTime == Typed(Guarded(In(Vendor({\h1a}, Arg))))
NT_Get_BC == Typed(Guarded(Forced(In(Vendor({\h05}, {\h52})))))
NT_Get_OTP == Typed(Guarded(In(Vendor({\h05}, {\h52}))))
NTU3_SetLED == Guarded(Out(U3(\h11, \h01)))
NTU3_GetLED == Guarded(In(U3(\h10, \h01)))
NTU3_GetHint == Guarded(In(U3(\h61, \h00)))
NT_EraseSystemUnit30 == In(Vendor({\h1e}, {\h00}))

(***************************************************************************)
(* Power, eMMC                                                             *)
(***************************************************************************)
TurnFlashPower == F6({\h08})
FlashReset == F6({\h00})
NT_EMMC_LoadBR == Out(Vendor({\h1f}, {\h00}))
NT_EMMC_LoadFW == Out(Vendor({\h1f}, {\h00}))
NT_EMMC_BuildDefaultSystemArea == Guarded(Out(Vendor({\h1f}, {\h00})))
NTU3_CD_Lock == Guarded(Out(U3(\h40, \h00)))
NT_EMMC_InitializeMMCHosts == Vendor({\h1e}, {\h06})
NT_EMMC_AdjustCommonFrequency == Vendor({\h1e}, {\h01})
NT_EMMC_SwitchDataBusWidth == Vendor({\h1e}, {\h02})
NT_EMMC_OutputClockToeMMC == Vendor({\h1e}, {\h08})
NT_EMMC_SendClocksToeMMC == Vendor({\h1e}, {\h07})
NT_EMMC_GetStatus == In(Vendor({\h1e}, {\h09}))

(***************************************************************************)
(* Wear and erase counters, authentication, fuses, voltages                *)
(***************************************************************************)
NT_CheckVT == In(Vendor({\h87}, {\h00}))
Direct_Read_Status == In(Vendor({\ha0}, {\h00}))
NT_GetDieInfo == In(Vendor({\h05}, {\h44}))
NT_WearLeveling_read == In(Vendor({\h05}, {\h57}))
NT_WearLeveling_write == Out(Vendor({\h05}, {\h57}))
Get_PowerUpCount == In(Vendor({\ha5}, {\h00}))
NT_ErsCntRead == In(Vendor({\h85}, Arg))
NT_ErsCntWrite == Out(Vendor({\h8f}, {\h00}))
NT_Get_Bin == Typed(Guarded(In(Vendor({\h18}, {\h00}))))
NT_ISP_Read_UpdateFWCount == In(Vendor({\h05}, {\h55}))
NT_FWSorting30 == Out(Vendor({\he0, \he2}, {\h00}))
NT_FWSorting30Result == In(Vendor({\he1}, {\h00}))
NT_GetFlashMode == In(Vendor({\h77}, {\h99}))
NT_GetFWAuthentication == Typed(Guarded(In(Vendor({\h64}, {\h01}))))
NT_SetFWAuthentication == Typed(Guarded(Out(Vendor({\h65}, {\h01}))))
NT_ReviseFWVersion == Typed(Guarded(Out(Scsi(\h0e))))
NT_CheckIBStatus == Typed(In(Vendor({\h1b}, {\h00})))
NT_GetEfuseData == Typed(Guarded(Forced(In(Vendor({\h05}, {\h52})))))
NT_GetNowEfuseData == Typed(Guarded(In(Vendor({\h05}, {\h52}))))
NT_GetCodeEfuseData == Typed(Guarded(In(Vendor({\hce}, {\h00}))))
NT_GetEfuseData70 == Typed(Guarded(In(Vendor({\h05}, {\h52}))))
NT_GetIBTable == Typed(Guarded(In(Vendor({\h0f}, {\h00}))))
NT_GetVoltage == Typed(Guarded(In(Vendor({\h15}, {\h00}))))
NT_DetectVoltage == Vendor({\h0e}, Arg)
NT_SetMediaChanged == Vendor({\h30}, {\h00})

(***************************************************************************)
(* Scans, system code, flash IDs of one die                                *)
(***************************************************************************)
NTU3_Open_2 == Guarded(Out(U3(\ha4, \h00)))
NT_ScanBadBlocks30 == Guarded(In(Vendor({\h94}, {\h00})))
NT_ScanFlashID30 == Guarded(In(Vendor({\h8b}, {\h5a})))
NT_Erase_Syetem_Code30 == Vendor({\h1e}, {\h00})
NTU3_CD_Lock_2 == Guarded(Out(U3(\h40, \h00)))
NT_Toggle2Legacy == F6({\h45})
NT_BurnerState_GetIB == In(Vendor({\h19}, {\h00}))
NT_Rom_rewrite_flash_ID == Vendor({\h0e}, {\h91})
NT_Get_flash_ID_by_CE_Channel_Die == In(Vendor({\h0e}, {\h90}))
NT_ISPGetStatus == Guarded(In(Vendor({\hb0}, {\h00})))

(***************************************************************************)
(* Tests of a NAND socket                                                  *)
(***************************************************************************)
NAND_READ_ID_TEST == Typed(In(Vendor({\h0e}, {\h90})))
NAND_SLC_Write == Typed(Out(Vendor({\h0e}, {\h24})))
NAND_MLC_TEST1_Write == Typed(Out(Vendor({\h0e}, {\h21})))
NAND_BadCol_TEST == Typed(In(Vendor({\h0e}, {\h30})))
NAND_WP_TEST_START == Vendor({\h0e}, {\h00})
NAND_WP_TEST == Typed(In(Vendor({\h0e}, {\h0d})))
NAND_WP_TEST_END == Vendor({\h0e}, {\h0f})

\* The commands above.
NtCommands ==
  { NT_GetFW_CodeAddr, NT_Get_CharInfo, NT_Get_FAB, NT_BootRomDisable_EDO,
    NT_FlashBitConfiguration, NT_ModeSense, NT_CardReaderSend, NT_CardReader_FW_init,
    NT_CardReader_PC2RDR_Status, NT_CardReader_RDR2PC_Status, NT_CardReader_ATR_Status,
    NT_CardReaderRead, NT_GetOPT, NT_IspConfigISP_CP, NT_IspConfigISP_CP30, NT_IspConfigISP,
    NT_Password_Op, NT_GetDieInformat, NT_Disk_Op, NTU3_U3PRA__Generate_Random_number,
    NTU3__Read_Page, NTU3__Scalable_Read_Page, NT_read_sec2blks, NT_SetWriteProtect,
    NT_BurnerTest1Block, NT_GetWriteProtect, NT_SetCCIDName, NT_GetDriveCapacity,
    NT_sRAM_readwrite_sectors, NT_write_blks, NT_USB23Switch, NT_EMMC_Preformat_GenH,
    NT_Direct_Preformat_GenH, NT_Unlock, NT_Direct_Preformat_GenH6, NT_MediaChange,
    NT_FingerSwitch_Start, NT_FingerSwitch_Process, NT_FingerSwitch_Result, NT_StartStopDrv,
    NT_GetFlashExtendID, NT_ReadGroupInfo, NT_ReadPage_All, NT_WriteInfoBlock,
    NT_WriteInfoBlock_K, NT_WriteInfoBlock_23, NT_WriteInfoBlock_23_K, NT_WriteTempInfoBlock,
    NT_Inquiry_All, NT_GetErrCEInfo30, NT_RequestSense, NT_JumpISPModeDisconnect,
    NT_JumpISPModeDisconnect_Security, NT_JumpISPMode63, NT_JumpFWISPMode, NT_JumpISPMode30,
    NT_JumpISPMode, NT_JumpBootCode, NT_JumpBootCodeByST, NT_JumpISPMode_2312Controller,
    NT_VerifyBurner, NT_VerifyFW, NT_BurnerVerifyFlash30, NT_GetISPStatus30, NT_GetISPStatus,
    NT_GetCommandSequence, NT_TransferISPData, NT_BufferReadISPData, NT_BufferReadISPData30,
    NT_ISPSwitchMode, NT_ISPGetFlash, NT_ISPGetConnectType, NT_ISPTestConnect,
    NT_ISP_EraseAllBlk30, NT_ISP_Bics3WaferErase, NT_ISP_EraseAllBlk,
    NT_ISP_EraseAllBlk_2312Controller, NT_GetIDBlk, NT_ISPIssueReadPage, NT_ISPIssueConfigFalsh,
    NT_QuickWrite30, NT_TuningDisk, NT_Toggle2LegacyReadId, NT_Toggle2LegacyGetSupportId,
    NT_Toggle2LegacyDetectBitNumber, NT_Toggle2Lagcy, NT_Legacy2Toggle, NT_T2LAndL2T_Rescue,
    NT_T2LAndL2T, NT_GetRetryTablePass, NT_SortingCodePowerOn, NT_Direct_Erase,
    NT_Direct_Write_Page2048, NT_Direct_Write_Page, NT_Direct_Read_Page, NT_U3_WriteInfoBlock,
    NTU3_Domain_Set_Flags, NTU3_Domain_Change_Type, NTU3SS__Set_Current_Cipher_Suite,
    NTU3SS__RSA_Get_Device_Public_Key, NTU3SS__RSA_Set_Host_Public_Key,
    NTU3SS__RSA_Set_Host_Random_Challenge, NTU3SS__RSA_Verify_Device_Public_Key,
    NTU3SS__RSA_Get_Device_Random_Challenge, NTU3SS__RSA_Verify_Host_Public_Key,
    NTU3SS__RSA_Set_Host_Secret_Number, NTU3SS__RSA_Get_Device_Secret_Number,
    NTU3SS__Start_Secure_Access, NTU3SS__Get_Secure_Session_Type, NTU__Read_Protected_Page,
    NTU__Write_Protected_Page, NTU__Set_Read_Password, NTU__Set_Write_Password,
    NTU3_Get_Area_Parameters, NTU3_U3PRA__Configure_Private_Area,
    NTU3_U3PRA__Configure_Private_Area_2, NTU3_U3PRA__Configure_2nd_Password,
    NTU3_Ready_Not_Ready_Pulse, NTU3_Open, NTU3_Close, NTU3__Write_Page,
    NTU3__Scalable_Write_Page, NTU3_Get_Device_Configuration, NTU3_Query_Service,
    NT_Burner_ScanBAD, NT_Get_RDYTime, NT_Get_BC, NT_Get_OTP, NTU3_SetLED, NTU3_GetLED,
    NTU3_GetHint, NT_EraseSystemUnit30, TurnFlashPower, FlashReset, NT_EMMC_LoadBR,
    NT_EMMC_LoadFW, NT_EMMC_BuildDefaultSystemArea, NTU3_CD_Lock, NT_EMMC_InitializeMMCHosts,
    NT_EMMC_AdjustCommonFrequency, NT_EMMC_SwitchDataBusWidth, NT_EMMC_OutputClockToeMMC,
    NT_EMMC_SendClocksToeMMC, NT_EMMC_GetStatus, NT_CheckVT, Direct_Read_Status, NT_GetDieInfo,
    NT_WearLeveling_read, NT_WearLeveling_write, Get_PowerUpCount, NT_ErsCntRead,
    NT_ErsCntWrite, NT_Get_Bin, NT_ISP_Read_UpdateFWCount, NT_FWSorting30, NT_FWSorting30Result,
    NT_GetFlashMode, NT_GetFWAuthentication, NT_SetFWAuthentication, NT_ReviseFWVersion,
    NT_CheckIBStatus, NT_GetEfuseData, NT_GetNowEfuseData, NT_GetCodeEfuseData,
    NT_GetEfuseData70, NT_GetIBTable, NT_GetVoltage, NT_DetectVoltage, NT_SetMediaChanged,
    NTU3_Open_2, NT_ScanBadBlocks30, NT_ScanFlashID30, NT_Erase_Syetem_Code30, NTU3_CD_Lock_2,
    NT_Toggle2Legacy, NT_BurnerState_GetIB, NT_Rom_rewrite_flash_ID,
    NT_Get_flash_ID_by_CE_Channel_Die, NT_ISPGetStatus, NAND_READ_ID_TEST, NAND_SLC_Write,
    NAND_MLC_TEST1_Write, NAND_BadCol_TEST, NAND_WP_TEST_START, NAND_WP_TEST, NAND_WP_TEST_END }

=============================================================================
