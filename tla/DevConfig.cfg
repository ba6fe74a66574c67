SPECIFICATION DevSpec
CONSTANTS
    DevCaps = {1, 4, 6, 64, 2047, 2048, 4097}
    DdrSizes = {0, 1, 1024}
    ChCnts = {0, 1, 2, 3, 8, 9}
    PlaneCnts = {1, 3, 8, 9}
    PageCnts = {96, 4096, 4097}
INVARIANTS AddressesDecode EstablishesAssumptions RegionsApart DividesSafely
\* a call that divides by zero ends the program
CHECK_DEADLOCK FALSE
