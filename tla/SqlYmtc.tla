---------------------------- MODULE SqlYmtc ----------------------------
(***************************************************************************)
(* The flash classes of YMTC: the loops of each operation.                 *)
(***************************************************************************)
EXTENDS SqlLoops

\* YMTCD2_SQLCmd, MLC.
YMTCD2_DumpWriteD1(j) == DumpRows(j, SlcOfMlc)
YMTCD2_DumpWrite(j) == DumpRows(j, RowPages)
YMTCD2_GroupWriteD1(j) == GroupRows(j, SlcOfMlc)
YMTCD2_GroupWrite(j) == GroupRows(j, RowPages)
YMTCD2_DumpReadD1(j) == PageReads(j, SlcOfMlc, Raw)
YMTCD2_DumpRead(j) == PageReads(j, RowPages, Raw)
YMTCD2_GroupReadDataD1(j) == PageReads(j, SlcOfMlc, Converted)
YMTCD2_GroupReadData(j) == PageReads(j, RowPages, Converted)
YMTCD2_GroupReadEccD1(j) == PageReads(j, SlcOfMlc, EccCounts)
YMTCD2_GroupReadEcc(j) == PageReads(j, RowPages, EccCounts)
YMTCD2(j) ==
    CASE j.op = "DumpWriteD1" -> YMTCD2_DumpWriteD1(j)
      [] j.op = "DumpWrite" -> YMTCD2_DumpWrite(j)
      [] j.op = "GroupWriteD1" -> YMTCD2_GroupWriteD1(j)
      [] j.op = "GroupWrite" -> YMTCD2_GroupWrite(j)
      [] j.op = "DumpReadD1" -> YMTCD2_DumpReadD1(j)
      [] j.op = "DumpRead" -> YMTCD2_DumpRead(j)
      [] j.op = "GroupReadDataD1" -> YMTCD2_GroupReadDataD1(j)
      [] j.op = "GroupReadData" -> YMTCD2_GroupReadData(j)
      [] j.op = "GroupReadEccD1" -> YMTCD2_GroupReadEccD1(j)
      [] j.op = "GroupReadEcc" -> YMTCD2_GroupReadEcc(j)

\* YMTCD3_SQLCmd, planar TLC.
YMTCD3_DumpWriteD1(j) == DumpRows(j, RowPages)
YMTCD3_DumpWrite(j) == DumpSteps(j, CellPages, FirstWordLine)
YMTCD3_GroupWriteD1(j) == GroupRows(j, RowPages)
YMTCD3_GroupWrite(j) == GroupSteps(j, CellPages, FirstWordLine)
YMTCD3_DumpReadD1(j) == PageReads(j, RowPages, Raw)
YMTCD3_DumpRead(j) == PageReads(j, CellPages, Raw)
YMTCD3_GroupReadDataD1(j) == PageReads(j, RowPages, Converted)
YMTCD3_GroupReadData(j) == OverlaidReads(j, CellPages, Converted)
YMTCD3_GroupReadEccD1(j) == PageReads(j, RowPages, EccCounts)
YMTCD3_GroupReadEcc(j) == PageReads(j, CellPages, EccCounts)
YMTCD3(j) ==
    CASE j.op = "DumpWriteD1" -> YMTCD3_DumpWriteD1(j)
      [] j.op = "DumpWrite" -> YMTCD3_DumpWrite(j)
      [] j.op = "GroupWriteD1" -> YMTCD3_GroupWriteD1(j)
      [] j.op = "GroupWrite" -> YMTCD3_GroupWrite(j)
      [] j.op = "DumpReadD1" -> YMTCD3_DumpReadD1(j)
      [] j.op = "DumpRead" -> YMTCD3_DumpRead(j)
      [] j.op = "GroupReadDataD1" -> YMTCD3_GroupReadDataD1(j)
      [] j.op = "GroupReadData" -> YMTCD3_GroupReadData(j)
      [] j.op = "GroupReadEccD1" -> YMTCD3_GroupReadEccD1(j)
      [] j.op = "GroupReadEcc" -> YMTCD3_GroupReadEcc(j)

\* YMTC3D_SQLCmd, 3D TLC.
YMTC3D_DumpWriteD1(j) == DumpRows(j, SlcPages)
YMTC3D_DumpWrite(j) == DumpRows(j, LastCellPages)
YMTC3D_GroupWriteD1(j) == GroupRows(j, SlcPages)
YMTC3D_GroupWrite(j) == GroupRows(j, LastCellPages)
YMTC3D_DumpReadD1(j) == PageReads(j, SlcPages, Raw)
YMTC3D_DumpRead(j) == PageReads(j, CellPages, Raw)
YMTC3D_GroupReadDataD1(j) == PageReads(j, SlcPages, Converted)
YMTC3D_GroupReadData(j) == PageReads(j, CellPages, Converted)
YMTC3D_GroupReadEccD1(j) == PageReads(j, SlcPages, EccCounts)
YMTC3D_GroupReadEcc(j) == PageReads(j, CellPages, EccCounts)
YMTC3D(j) ==
    CASE j.op = "DumpWriteD1" -> YMTC3D_DumpWriteD1(j)
      [] j.op = "DumpWrite" -> YMTC3D_DumpWrite(j)
      [] j.op = "GroupWriteD1" -> YMTC3D_GroupWriteD1(j)
      [] j.op = "GroupWrite" -> YMTC3D_GroupWrite(j)
      [] j.op = "DumpReadD1" -> YMTC3D_DumpReadD1(j)
      [] j.op = "DumpRead" -> YMTC3D_DumpRead(j)
      [] j.op = "GroupReadDataD1" -> YMTC3D_GroupReadDataD1(j)
      [] j.op = "GroupReadData" -> YMTC3D_GroupReadData(j)
      [] j.op = "GroupReadEccD1" -> YMTC3D_GroupReadEccD1(j)
      [] j.op = "GroupReadEcc" -> YMTC3D_GroupReadEcc(j)

=============================================================================
