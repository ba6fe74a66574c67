--------------------------- MODULE DriverCommands ---------------------------
(***************************************************************************)
(* The commands CNTCommand sends over USB, those that a function sends to  *)
(* the driver itself, past NT_CustomCmd_Phy: see UsbCommands.  They are    *)
(* sent again while the device answers with a status, up to the number of  *)
(* times given by Raw.  NT_readwrite_sectors_H goes again on an error of   *)
(* the driver as well, and does not count a time-out reported too early.   *)
(***************************************************************************)
EXTENDS UsbCommands

Raw(n, c) == [c EXCEPT !.raw = 0 .. 2, !.times = n]

\* Read or write, of a hidden area (0A, 0B) or not; beyond 1 TB with the codes over.
ReadWrite(over) ==
    Command(({\h28, \h2a} \cup over) \X {\h00} \X Arg
            \cup ({\h06} \cup over) \X {\h0a, \h0b} \X Arg)

NT_TestUnitReady == Raw(1, Guarded(Typed(Scsi(\h00))))
NT_readwrite_sectors_l == Raw(11, Guarded(InOut(ReadWrite({\h88, \h8a}))))
NT_readwrite_sectors == Raw(11, Guarded(InOut(ReadWrite({\h88, \h8a}))))
NT_Direct_Op == Raw(6, Guarded(Typed(In(Vendor({\ha0}, {\h00})))))
NT_readwrite_sectors_Hl == Raw(11, Guarded(InOut(ReadWrite({\h88, \h8a}))))
NT_readwrite_sectors_H == Raw(3, Guarded(InOut(ReadWrite({\ha8, \haa}))))
NT_StartLED_All == Raw(1, Typed(Vendor({\h0d}, Arg)))
NT_EMMC_StartLED_All == Raw(1, Typed(U3(\h00, \h01)))
U32l_SCSI_Write_CD_H == Raw(11, Guarded(InOut(Command({<<\hf3, \h00, \h42>>}))))
NT_GetFlashUniqueID == Raw(6, Guarded(Typed(In(Vendor({\h56}, {\h00})))))
NT_Flushcommand == Raw(1, Typed(Vendor({\h40}, {\h00})))
ST_GetFlashExtendID == Raw(6, Guarded(Typed(In(Vendor({\h56}, Arg)))))
ST_GetE2NANDFlashExtendID == Raw(6, Guarded(Typed(In(Vendor({\h56}, Arg)))))

RawCommands ==
  { NT_TestUnitReady, NT_readwrite_sectors_l, NT_readwrite_sectors, NT_Direct_Op,
    NT_readwrite_sectors_Hl, NT_readwrite_sectors_H, NT_StartLED_All, NT_EMMC_StartLED_All,
    U32l_SCSI_Write_CD_H, NT_GetFlashUniqueID, NT_Flushcommand, ST_GetFlashExtendID,
    ST_GetE2NANDFlashExtendID }

=============================================================================
