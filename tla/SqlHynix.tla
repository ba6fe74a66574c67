---------------------------- MODULE SqlHynix ----------------------------
(***************************************************************************)
(* The flash classes of Hynix: the loops of each operation.                *)
(***************************************************************************)
EXTENDS SqlLoops

\* HYXD2_SQLCmd, MLC.
HYXD2_DumpWriteD1(j) == DumpRows(j, SlcOfMlc)
HYXD2_DumpWrite(j) == DumpRows(j, RowPages)
HYXD2_GroupWriteD1(j) == GroupRows(j, SlcOfMlc)
HYXD2_GroupWrite(j) == GroupRows(j, RowPages)
HYXD2_DumpReadD1(j) == PageReads(j, SlcOfMlc, Raw)
HYXD2_DumpRead(j) == PageReads(j, RowPages, Raw)
HYXD2_GroupReadDataD1(j) == PageReads(j, SlcOfMlc, Converted)
HYXD2_GroupReadData(j) == PageReads(j, RowPages, Converted)
HYXD2_GroupReadEccD1(j) == PageReads(j, SlcOfMlc, EccCounts)
HYXD2_GroupReadEcc(j) == PageReads(j, RowPages, EccCounts)
HYXD2(j) ==
    CASE j.op = "DumpWriteD1" -> HYXD2_DumpWriteD1(j)
      [] j.op = "DumpWrite" -> HYXD2_DumpWrite(j)
      [] j.op = "GroupWriteD1" -> HYXD2_GroupWriteD1(j)
      [] j.op = "GroupWrite" -> HYXD2_GroupWrite(j)
      [] j.op = "DumpReadD1" -> HYXD2_DumpReadD1(j)
      [] j.op = "DumpRead" -> HYXD2_DumpRead(j)
      [] j.op = "GroupReadDataD1" -> HYXD2_GroupReadDataD1(j)
      [] j.op = "GroupReadData" -> HYXD2_GroupReadData(j)
      [] j.op = "GroupReadEccD1" -> HYXD2_GroupReadEccD1(j)
      [] j.op = "GroupReadEcc" -> HYXD2_GroupReadEcc(j)

\* HYXD3_SQLCmd, planar TLC.
HYXD3_DumpWriteD1(j) == DumpRows(j, SlcPages)
HYXD3_DumpWrite(j) == DumpSteps(j, CellPages, WordLines)
HYXD3_GroupWriteD1(j) == GroupRows(j, SlcPages)
HYXD3_GroupWrite(j) == GroupSteps(j, CellPages, WordLines)
HYXD3_DumpReadD1(j) == PageReads(j, SlcPages, Raw)
HYXD3_DumpRead(j) == PageReads(j, CellPages, Raw)
HYXD3_GroupReadDataD1(j) == PageReads(j, SlcPages, Converted)
HYXD3_GroupReadData(j) == PageReads(j, CellPages, Converted)
HYXD3_GroupReadEccD1(j) == PageReads(j, SlcPages, EccCounts)
HYXD3_GroupReadEcc(j) == PageReads(j, CellPages, EccCounts)
HYXD3(j) ==
    CASE j.op = "DumpWriteD1" -> HYXD3_DumpWriteD1(j)
      [] j.op = "DumpWrite" -> HYXD3_DumpWrite(j)
      [] j.op = "GroupWriteD1" -> HYXD3_GroupWriteD1(j)
      [] j.op = "GroupWrite" -> HYXD3_GroupWrite(j)
      [] j.op = "DumpReadD1" -> HYXD3_DumpReadD1(j)
      [] j.op = "DumpRead" -> HYXD3_DumpRead(j)
      [] j.op = "GroupReadDataD1" -> HYXD3_GroupReadDataD1(j)
      [] j.op = "GroupReadData" -> HYXD3_GroupReadData(j)
      [] j.op = "GroupReadEccD1" -> HYXD3_GroupReadEccD1(j)
      [] j.op = "GroupReadEcc" -> HYXD3_GroupReadEcc(j)

\* HYX3D_SQLCmd, 3D TLC.
HYX3D_DumpWriteD1(j) == DumpRows(j, SlcPages)
HYX3D_DumpWrite(j) == DumpWordLines(j, CellPages, 1)
HYX3D_GroupWriteD1(j) == GroupRows(j, SlcPages)
HYX3D_GroupWrite(j) == GroupWordLines(j, CellPages)
HYX3D_DumpReadD1(j) == PageReads(j, SlcPages, Raw)
HYX3D_DumpRead(j) == PageReads(j, CellPages, Raw)
HYX3D_GroupReadDataD1(j) == PageReads(j, SlcPages, Converted)
HYX3D_GroupReadData(j) == PageReads(j, CellPages, Converted)
HYX3D_GroupReadEccD1(j) == PageReads(j, SlcPages, EccCounts)
HYX3D_GroupReadEcc(j) == PageReads(j, CellPages, EccCounts)
HYX3D(j) ==
    CASE j.op = "DumpWriteD1" -> HYX3D_DumpWriteD1(j)
      [] j.op = "DumpWrite" -> HYX3D_DumpWrite(j)
      [] j.op = "GroupWriteD1" -> HYX3D_GroupWriteD1(j)
      [] j.op = "GroupWrite" -> HYX3D_GroupWrite(j)
      [] j.op = "DumpReadD1" -> HYX3D_DumpReadD1(j)
      [] j.op = "DumpRead" -> HYX3D_DumpRead(j)
      [] j.op = "GroupReadDataD1" -> HYX3D_GroupReadDataD1(j)
      [] j.op = "GroupReadData" -> HYX3D_GroupReadData(j)
      [] j.op = "GroupReadEccD1" -> HYX3D_GroupReadEccD1(j)
      [] j.op = "GroupReadEcc" -> HYX3D_GroupReadEcc(j)

=============================================================================
