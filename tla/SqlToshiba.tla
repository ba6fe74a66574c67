---------------------------- MODULE SqlToshiba ----------------------------
(***************************************************************************)
(* The flash classes of Toshiba and SanDisk: the loops of each operation.  *)
(***************************************************************************)
EXTENDS SqlLoops

\* TSBD2_SQLCmd, MLC.
TSBD2_DumpWriteD1(j) == DumpRows(j, SlcOfMlc)
TSBD2_DumpWrite(j) == DumpRows(j, RowPages)
TSBD2_GroupWriteD1(j) == GroupRows(j, SlcOfMlc)
TSBD2_GroupWrite(j) == GroupRows(j, RowPages)
TSBD2_DumpReadD1(j) == PageReads(j, SlcOfMlc, Raw)
TSBD2_DumpRead(j) == PageReads(j, RowPages, Raw)
TSBD2_GroupReadDataD1(j) == PageReads(j, SlcOfMlc, Converted)
TSBD2_GroupReadData(j) == PageReads(j, RowPages, Converted)
TSBD2_GroupReadEccD1(j) == PageReads(j, SlcOfMlc, EccCounts)
TSBD2_GroupReadEcc(j) == PageReads(j, RowPages, EccCounts)
TSBD2(j) ==
    CASE j.op = "DumpWriteD1" -> TSBD2_DumpWriteD1(j)
      [] j.op = "DumpWrite" -> TSBD2_DumpWrite(j)
      [] j.op = "GroupWriteD1" -> TSBD2_GroupWriteD1(j)
      [] j.op = "GroupWrite" -> TSBD2_GroupWrite(j)
      [] j.op = "DumpReadD1" -> TSBD2_DumpReadD1(j)
      [] j.op = "DumpRead" -> TSBD2_DumpRead(j)
      [] j.op = "GroupReadDataD1" -> TSBD2_GroupReadDataD1(j)
      [] j.op = "GroupReadData" -> TSBD2_GroupReadData(j)
      [] j.op = "GroupReadEccD1" -> TSBD2_GroupReadEccD1(j)
      [] j.op = "GroupReadEcc" -> TSBD2_GroupReadEcc(j)

\* TSBD3_SQLCmd, planar TLC.
TSBD3_DumpWriteD1(j) == DumpRows(j, SlcPages)
TSBD3_DumpWrite(j) == DumpSteps(j, CellPages, WordLines)
TSBD3_GroupWriteD1(j) == GroupRows(j, SlcPages)
TSBD3_GroupWrite(j) == GroupSteps(j, CellPages, WordLines)
TSBD3_DumpReadD1(j) == PageReads(j, SlcPages, Raw)
TSBD3_DumpRead(j) == PageReads(j, CellPages, Raw)
TSBD3_GroupReadDataD1(j) == PageReads(j, SlcPages, Converted)
TSBD3_GroupReadData(j) == PageReads(j, CellPages, Converted)
TSBD3_GroupReadEccD1(j) == PageReads(j, SlcPages, EccCounts)
TSBD3_GroupReadEcc(j) == PageReads(j, CellPages, EccCounts)
TSBD3(j) ==
    CASE j.op = "DumpWriteD1" -> TSBD3_DumpWriteD1(j)
      [] j.op = "DumpWrite" -> TSBD3_DumpWrite(j)
      [] j.op = "GroupWriteD1" -> TSBD3_GroupWriteD1(j)
      [] j.op = "GroupWrite" -> TSBD3_GroupWrite(j)
      [] j.op = "DumpReadD1" -> TSBD3_DumpReadD1(j)
      [] j.op = "DumpRead" -> TSBD3_DumpRead(j)
      [] j.op = "GroupReadDataD1" -> TSBD3_GroupReadDataD1(j)
      [] j.op = "GroupReadData" -> TSBD3_GroupReadData(j)
      [] j.op = "GroupReadEccD1" -> TSBD3_GroupReadEccD1(j)
      [] j.op = "GroupReadEcc" -> TSBD3_GroupReadEcc(j)

\* TSB3D_SQLCmd, 3D TLC.
TSB3D_DumpWriteD1(j) == DumpRows(j, SlcPages)
TSB3D_DumpWrite(j) == DumpWordLines(j, CellPages, IF Cell = 4 THEN 2 ELSE 1)
TSB3D_GroupWriteD1(j) == GroupRows(j, SlcPages)
TSB3D_GroupWrite(j) == GroupWordLines(j, CellPages)
TSB3D_DumpReadD1(j) == PageReads(j, SlcPages, Raw)
TSB3D_DumpRead(j) == PageReads(j, CellPages, Raw)
TSB3D_GroupReadDataD1(j) == PageReads(j, SlcPages, Converted)
TSB3D_GroupReadData(j) == PageReads(j, CellPages, Converted)
TSB3D_GroupReadEccD1(j) == PageReads(j, SlcPages, EccCounts)
TSB3D_GroupReadEcc(j) == PageReads(j, CellPages, EccCounts)
TSB3D(j) ==
    CASE j.op = "DumpWriteD1" -> TSB3D_DumpWriteD1(j)
      [] j.op = "DumpWrite" -> TSB3D_DumpWrite(j)
      [] j.op = "GroupWriteD1" -> TSB3D_GroupWriteD1(j)
      [] j.op = "GroupWrite" -> TSB3D_GroupWrite(j)
      [] j.op = "DumpReadD1" -> TSB3D_DumpReadD1(j)
      [] j.op = "DumpRead" -> TSB3D_DumpRead(j)
      [] j.op = "GroupReadDataD1" -> TSB3D_GroupReadDataD1(j)
      [] j.op = "GroupReadData" -> TSB3D_GroupReadData(j)
      [] j.op = "GroupReadEccD1" -> TSB3D_GroupReadEccD1(j)
      [] j.op = "GroupReadEcc" -> TSB3D_GroupReadEcc(j)

=============================================================================
