---------------------------- MODULE SqlMicron ----------------------------
(***************************************************************************)
(* The flash classes of Micron and Intel: the loops of each operation.     *)
(***************************************************************************)
EXTENDS SqlLoops

\* IMD2_SQLCmd, MLC.
IMD2_DumpWriteD1(j) == DumpRows(j, SlcOfMlc)
IMD2_DumpWrite(j) == DumpRows(j, RowPages)
IMD2_GroupWriteD1(j) == GroupRows(j, SlcOfMlc)
IMD2_GroupWrite(j) == GroupRows(j, RowPages)
IMD2_DumpReadD1(j) == PageReads(j, SlcOfMlc, Raw)
IMD2_DumpRead(j) == PageReads(j, RowPages, Raw)
IMD2_GroupReadDataD1(j) == PageReads(j, SlcOfMlc, Converted)
IMD2_GroupReadData(j) == PageReads(j, RowPages, Converted)
IMD2_GroupReadEccD1(j) == PageReads(j, SlcOfMlc, EccCounts)
IMD2_GroupReadEcc(j) == PageReads(j, RowPages, EccCounts)
IMD2(j) ==
    CASE j.op = "DumpWriteD1" -> IMD2_DumpWriteD1(j)
      [] j.op = "DumpWrite" -> IMD2_DumpWrite(j)
      [] j.op = "GroupWriteD1" -> IMD2_GroupWriteD1(j)
      [] j.op = "GroupWrite" -> IMD2_GroupWrite(j)
      [] j.op = "DumpReadD1" -> IMD2_DumpReadD1(j)
      [] j.op = "DumpRead" -> IMD2_DumpRead(j)
      [] j.op = "GroupReadDataD1" -> IMD2_GroupReadDataD1(j)
      [] j.op = "GroupReadData" -> IMD2_GroupReadData(j)
      [] j.op = "GroupReadEccD1" -> IMD2_GroupReadEccD1(j)
      [] j.op = "GroupReadEcc" -> IMD2_GroupReadEcc(j)

\* IMD3_SQLCmd, planar TLC.
IMD3_DumpWriteD1(j) == DumpRows(j, RowPages)
IMD3_DumpWrite(j) == DumpSteps(j, CellPages, FirstWordLine)
IMD3_GroupWriteD1(j) == GroupRows(j, RowPages)
IMD3_GroupWrite(j) == GroupSteps(j, CellPages, FirstWordLine)
IMD3_DumpReadD1(j) == PageReads(j, RowPages, Raw)
IMD3_DumpRead(j) == PageReads(j, CellPages, Raw)
IMD3_GroupReadDataD1(j) == PageReads(j, RowPages, Converted)
IMD3_GroupReadData(j) == OverlaidReads(j, CellPages, Converted)
IMD3_GroupReadEccD1(j) == PageReads(j, RowPages, EccCounts)
IMD3_GroupReadEcc(j) == PageReads(j, CellPages, EccCounts)
IMD3(j) ==
    CASE j.op = "DumpWriteD1" -> IMD3_DumpWriteD1(j)
      [] j.op = "DumpWrite" -> IMD3_DumpWrite(j)
      [] j.op = "GroupWriteD1" -> IMD3_GroupWriteD1(j)
      [] j.op = "GroupWrite" -> IMD3_GroupWrite(j)
      [] j.op = "DumpReadD1" -> IMD3_DumpReadD1(j)
      [] j.op = "DumpRead" -> IMD3_DumpRead(j)
      [] j.op = "GroupReadDataD1" -> IMD3_GroupReadDataD1(j)
      [] j.op = "GroupReadData" -> IMD3_GroupReadData(j)
      [] j.op = "GroupReadEccD1" -> IMD3_GroupReadEccD1(j)
      [] j.op = "GroupReadEcc" -> IMD3_GroupReadEcc(j)

\* IM3D_SQLCmd, 3D TLC.
IM3D_DumpWriteD1(j) == DumpRows(j, SlcPages)
IM3D_DumpWrite(j) == DumpRows(j, LastCellPages)
IM3D_GroupWriteD1(j) == GroupRows(j, SlcPages)
IM3D_GroupWrite(j) == GroupRows(j, LastCellPages)
IM3D_DumpReadD1(j) == PageReads(j, SlcPages, Raw)
IM3D_DumpRead(j) == PageReads(j, CellPages, Raw)
IM3D_GroupReadDataD1(j) == PageReads(j, SlcPages, Converted)
IM3D_GroupReadData(j) == PageReads(j, CellPages, Converted)
IM3D_GroupReadEccD1(j) == PageReads(j, SlcPages, EccCounts)
IM3D_GroupReadEcc(j) == PageReads(j, CellPages, EccCounts)
IM3D(j) ==
    CASE j.op = "DumpWriteD1" -> IM3D_DumpWriteD1(j)
      [] j.op = "DumpWrite" -> IM3D_DumpWrite(j)
      [] j.op = "GroupWriteD1" -> IM3D_GroupWriteD1(j)
      [] j.op = "GroupWrite" -> IM3D_GroupWrite(j)
      [] j.op = "DumpReadD1" -> IM3D_DumpReadD1(j)
      [] j.op = "DumpRead" -> IM3D_DumpRead(j)
      [] j.op = "GroupReadDataD1" -> IM3D_GroupReadDataD1(j)
      [] j.op = "GroupReadData" -> IM3D_GroupReadData(j)
      [] j.op = "GroupReadEccD1" -> IM3D_GroupReadEccD1(j)
      [] j.op = "GroupReadEcc" -> IM3D_GroupReadEcc(j)

=============================================================================
