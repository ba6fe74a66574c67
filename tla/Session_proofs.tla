--------------------------- MODULE Session_proofs ---------------------------
(***************************************************************************)
(* Proofs about the session of Session.tla, for every image, segment size  *)
(* and number of retries: what the SDK believes of the controller, from    *)
(* the versions it saw and what it asked for, is true of the controller.   *)
(***************************************************************************)
EXTENDS Session, Integers, TLAPS

\* Quotient and remainder exist and are in range, and are the only ones.
LEMMA DivModType ==
    ASSUME NEW a \in Nat, NEW b \in Nat \ {0}
    PROVE  /\ a \div b \in Nat
           /\ a % b \in 0 .. b - 1
           /\ a = b * (a \div b) + (a % b)
BY SMT

LEMMA DivModUnique ==
    ASSUME NEW b \in Nat \ {0}, NEW q \in Nat, NEW r \in 0 .. b - 1,
           NEW a \in Nat, a = b * q + r
    PROVE  a \div b = q /\ a % b = r
BY SMT

Resetting == {"reset", "i2c init", "power off", "i2c power", "power on"}

\* A drive that counts as switched off has no object and runs no burner, and
\* only a bridge reset is under way.  Only a load runs the loader.
PowerOk ==
    /\ isPowerOff =>
          /\ fw = "null" /\ lpc = "false" /\ ~isInitFlash
          /\ pc \in {"idle", "inquiry"} \cup Resetting
          /\ mode # "burner" /\ next # "burner"
    /\ ~isPowerOff => pc \notin Resetting
    /\ ~Returned => pc \in {"init drive", "init again"}

\* What the controller runs, and what tells the SDK that it is the burner.
ControllerOk ==
    /\ mode # "lost" /\ next # "lost"
    /\ mode = "burner" => next = "none"
    /\ fw = "B" \/ lpc = "true" \/ isInitFlash => mode = "burner"

\* While it is sent back to its boot ROM it is there, or on the way, or still
\* runs the firmware; the boot ROM's version was seen only of a controller
\* that is there.
JumpOk ==
    lpc \in {"jump back", "force"} =>
        /\ mode \in {"firmware", "rom"} /\ next \in {"none", "rom"}
        /\ fw \in {"F", "R"}
        /\ fw = "R" => mode = "rom" /\ next = "none"
        /\ lpc = "force" => fw = "F"

\* The segments up to seg are in place.
Placed(n) == \A p \in Place : p < n * UbCount => pram[p] = p

\* The controller waits in its boot ROM while the image is programmed, and when
\* the program ends there.
LoadOk ==
    lpc \in {"key", "segment", "start", "aborted"} =>
        /\ mode = "rom" /\ next = "none"
        /\ seg <= Segments /\ Placed(seg)
        /\ lpc = "segment" => seg < Segments
        /\ lpc = "start" => seg = Segments

SessionInv == TypeOK /\ PowerOk /\ ControllerOk /\ JumpOk /\ LoadOk

-----------------------------------------------------------------------------
\* The transfers

LEMMA FaultType ==
    ASSUME faults \in 0 .. MaxFaults, Fault
    PROVE  faults' \in 0 .. MaxFaults
BY BridgeAssumption DEF Fault

\* What Flow tells: a command was seen only by a controller that answers, and
\* a completion that was read says that it was.
LEMMA FlowFacts ==
    ASSUME NEW skipCq \in BOOLEAN, NEW done \in BOOLEAN, NEW ret \in BOOLEAN,
           Flow(skipCq, done, ret), faults \in 0 .. MaxFaults
    PROVE  /\ faults' \in 0 .. MaxFaults
           /\ done => Answers
           /\ ret /\ ~skipCq => Answers /\ done
BY FaultType DEF Flow

\* A version that was read is the controller's.
LEMMA IdentifyFacts ==
    ASSUME NEW ok \in BOOLEAN, Identify(ok), BridgeTypeOK
    PROVE  /\ UNCHANGED <<mode, next, pram, outputs, rail, unheard>>
           /\ faults' \in 0 .. MaxFaults
           /\ ok => Answers /\ fw' = Letter
           /\ ~ok => fw' = fw
<1>1. PICK done \in BOOLEAN : Flow(FALSE, done, ok)
    BY DEF Identify
<1>2. /\ faults' \in 0 .. MaxFaults
      /\ ok => Answers
    BY <1>1, FlowFacts DEF BridgeTypeOK
<1> QED
    BY <1>2 DEF Identify, controller, tester

-----------------------------------------------------------------------------
\* The segments

LEMMA SegmentsFacts ==
    /\ SectorNo \in Nat \ {0} /\ UbCount \in Nat \ {0}
    /\ Segments \in Nat /\ Segments <= SectorNo
    /\ SectorNo <= Segments * UbCount
    /\ \A s \in Nat : s < Segments => s * UbCount < SectorNo
<1>1. SectorNo \in Nat \ {0} /\ UbCount \in Nat \ {0}
    BY BridgeAssumption, LoaderAssumption
<1> DEFINE a == SectorNo + UbCount - 1
           r == a % UbCount
<1>2. a \in Nat
    BY <1>1
<1>3. /\ Segments \in Nat /\ r \in 0 .. UbCount - 1
      /\ a = UbCount * Segments + r
    BY <1>1, <1>2, DivModType DEF Segments
<1>4. SectorNo + UbCount - 1 = UbCount * Segments + r
    BY <1>3
<1> HIDE DEF r
<1>5. r \in Int /\ 0 <= r /\ r <= UbCount - 1 /\ Segments \in Nat
    BY <1>1, <1>3
<1>6. SectorNo <= Segments * UbCount
    BY <1>1, <1>4, <1>5, SMT
<1>7. ASSUME NEW s \in Nat, s < Segments
      PROVE  s * UbCount < SectorNo
    <2>1. PICK d \in Nat : Segments = s + 1 + d
        <3>1. Segments - s - 1 \in Nat /\ Segments = s + 1 + (Segments - s - 1)
            BY <1>5, <1>7
        <3> QED
            BY <3>1
    <2>2. UbCount * Segments = UbCount * s + UbCount + UbCount * d
        BY <1>1, <1>5, <2>1, SMT
    <2>3. UbCount * d \in Nat /\ UbCount * s \in Nat
        BY <1>1, SMT
    <2>4. SectorNo + UbCount - 1 = UbCount * s + UbCount + UbCount * d + r
        BY <1>4, <2>2
    <2>5. s * UbCount = UbCount * s
        BY <1>1, SMT
    <2> DEFINE x == UbCount * s
               y == UbCount * d
    <2> HIDE DEF x, y
    <2>6. x \in Nat /\ y \in Nat /\ SectorNo + UbCount - 1 = x + UbCount + y + r
        BY <2>3, <2>4 DEF x, y
    <2>7. x < SectorNo
        BY <1>1, <1>5, <2>6
    <2> QED
        BY <2>5, <2>7 DEF x
<1>8. Segments <= SectorNo
    <2>1. CASE Segments = 0
        BY <1>1, <2>1
    <2>2. CASE Segments # 0
        <3>1. Segments - 1 \in Nat /\ Segments - 1 < Segments
            BY <1>5, <2>2
        <3>2. (Segments - 1) * UbCount < SectorNo
            BY <1>7, <3>1
        <3>3. Segments - 1 <= (Segments - 1) * UbCount
            BY <1>1, <3>1, SMT
        <3> DEFINE x == (Segments - 1) * UbCount
        <3>4. x \in Int
            BY <1>1, <1>5, SMT
        <3> HIDE DEF x
        <3>5. x < SectorNo /\ Segments - 1 <= x
            BY <3>2, <3>3 DEF x
        <3> QED
            BY <1>1, <1>5, <3>4, <3>5
    <2> QED
        BY <2>1, <2>2
<1> QED
    BY <1>1, <1>5, <1>6, <1>7, <1>8

\* Segment s is programmed to its own place, the last and shorter one too,
\* and leaves the others alone.
LEMMA ProgrammedPrefix ==
    ASSUME NEW s \in Nat, s < Segments, pram \in [Place -> Place \cup {Blank}],
           Placed(s)
    PROVE  /\ Programmed(s) \in [Place -> Place \cup {Blank}]
           /\ \A p \in Place : p < (s + 1) * UbCount => Programmed(s)[p] = p
<1> DEFINE x == s * UbCount
<1>1. /\ SectorNo \in Nat \ {0} /\ UbCount \in Nat \ {0}
      /\ x \in Nat /\ x < SectorNo
      /\ (s + 1) * UbCount = x + UbCount
      /\ UbCount * s = x
    <2>1. SectorNo \in Nat \ {0} /\ UbCount \in Nat \ {0} /\ x < SectorNo
        BY SegmentsFacts
    <2> QED
        BY <2>1, SMT
<1>2. x + UbCount > SectorNo => SectorNo % UbCount = SectorNo - x
    <2> SUFFICES ASSUME x + UbCount > SectorNo
                 PROVE  SectorNo % UbCount = SectorNo - x
        OBVIOUS
    <2> DEFINE r == SectorNo - x
    <2>1. SectorNo \in Nat /\ r \in 0 .. UbCount - 1 /\ SectorNo = UbCount * s + r
        BY <1>1
    <2> HIDE DEF r
    <2>2. SectorNo % UbCount = r
        BY <1>1, <2>1, DivModUnique
    <2> QED
        BY <2>2 DEF r
<1>3. SegSize(s) = IF x + UbCount <= SectorNo THEN UbCount ELSE SectorNo - x
    BY <1>1, <1>2 DEF SegSize
<1>4. SegOffset(s) = x
    <2>1. CASE s = Segments - 1
        BY <1>1, <2>1 DEF SegOffset
    <2>2. CASE s # Segments - 1
        <3>1. s + 1 \in Nat /\ s + 1 < Segments
            BY <2>2, SegmentsFacts
        <3>2. (s + 1) * UbCount < SectorNo
            BY <3>1, SegmentsFacts
        <3>3. x + UbCount <= SectorNo
            BY <1>1, <3>2
        <3>4. SegSize(s) = UbCount
            BY <1>3, <3>3
        <3> QED
            BY <1>1, <2>2, <3>4 DEF SegOffset
    <2> QED
        BY <2>1, <2>2
<1> DEFINE z == SegSize(s)
<1>5. Programmed(s) = [p \in Place |-> IF p \in x .. x + z - 1
                                       THEN x + p - x ELSE pram[p]]
    BY <1>4 DEF Programmed
<1>6. z \in Nat /\ x + z <= SectorNo /\ (z = UbCount \/ x + z = SectorNo)
    BY <1>1, <1>3
<1>7. \A p \in Place : p < x => pram[p] = p
    BY DEF Placed
<1> HIDE DEF x, z
<1>8. \A p \in Place : Programmed(s)[p] = IF p \in x .. x + z - 1 THEN p ELSE pram[p]
    BY <1>1, <1>5, <1>6 DEF Place
<1>9. Programmed(s) \in [Place -> Place \cup {Blank}]
    BY <1>1, <1>5, <1>6 DEF Place
<1>10. ASSUME NEW p \in Place, p < (s + 1) * UbCount
       PROVE  Programmed(s)[p] = p
    <2>1. p \in Nat /\ p < SectorNo /\ p < x + UbCount
        BY <1>1, <1>10 DEF Place
    <2>2. p < x \/ p \in x .. x + z - 1
        BY <1>1, <1>6, <2>1
    <2> QED
        BY <1>7, <1>8, <2>2
<1> QED
    BY <1>9, <1>10

-----------------------------------------------------------------------------
\* The invariant is inductive: first the steps within a load.

LEMMA LoaderNumbers ==
    /\ JumpLoops \in Nat \ {0} /\ JumpRetries \in Nat \ {0}
    /\ SettleRetries \in Nat \ {0} /\ UbCount \in Nat \ {0}
    /\ SectorNo \in Nat \ {0} /\ MaxFaults \in Nat
    /\ 0 \in 0 .. JumpLoops - 1 /\ 0 \in 0 .. SectorNo
    /\ 0 \in 0 .. JumpRetries + SettleRetries - 1
BY LoaderAssumption, BridgeAssumption

\* Before the first segment nothing has to be in place.
LEMMA NothingPlaced == 0 <= Segments /\ \A p \in Place : ~(p < 0 * UbCount)
<1>1. SectorNo \in Nat /\ UbCount \in Nat /\ Segments \in Nat
    BY SegmentsFacts
<1> QED
    BY <1>1 DEF Place

\* After the last segment everything is.
LEMMA AllPlaced ==
    ASSUME Placed(Segments)
    PROVE  Complete
<1> DEFINE x == Segments * UbCount
<1>1. SectorNo \in Nat /\ UbCount \in Nat /\ Segments \in Nat /\ SectorNo <= x
    BY SegmentsFacts
<1>2. x \in Nat
    BY <1>1, SMT
<1>3. \A p \in Place : p < x => pram[p] = p
    BY DEF Placed
<1> HIDE DEF x
<1>4. \A p \in Place : p < x
    BY <1>1, <1>2 DEF Place
<1> QED
    BY <1>3, <1>4 DEF Complete

LEMMA SessionInit == Init => SessionInv
<1> SUFFICES ASSUME Init PROVE SessionInv
    OBVIOUS
<1> USE DEF Init, BridgeInit, LoaderInit
<1>1. pram \in [Place -> Place \cup {Blank}] /\ mode \in Modes /\ next \in Modes \cup {"none"}
    BY DEF Modes, NoImage
<1>2. {outputs, rail, unheard} \subseteq BOOLEAN /\ {isPowerOff, isInitFlash, sql} \subseteq BOOLEAN
    BY Zenon
<1>3. faults \in 0 .. MaxFaults /\ LoaderTypeOK
    BY LoaderNumbers DEF LoaderTypeOK
<1>4. TypeOK
    BY <1>1, <1>2, <1>3 DEF TypeOK, BridgeTypeOK, Calls
<1> QED
    BY <1>4 DEF SessionInv, PowerOk, ControllerOk, JumpOk, LoadOk, Returned, Resetting

LEMMA CounterTypes ==
    ASSUME SessionInv
    PROVE  /\ loop \in 0 .. JumpLoops - 1
           /\ retry \in 0 .. JumpRetries + SettleRetries - 1
           /\ seg \in 0 .. SectorNo /\ seg \in Nat
<1>1. /\ loop \in 0 .. JumpLoops - 1
      /\ retry \in 0 .. JumpRetries + SettleRetries - 1
      /\ seg \in 0 .. SectorNo
    BY DEF SessionInv, TypeOK, LoaderTypeOK
<1> QED
    BY <1>1, LoaderNumbers

LEMMA NextRetryTypes ==
    ASSUME NextRetry, loop \in 0 .. JumpLoops - 1,
           retry \in 0 .. JumpRetries + SettleRetries - 1
    PROVE  /\ lpc' \in {"jump back", "false"}
           /\ loop' \in 0 .. JumpLoops - 1
           /\ retry' \in 0 .. JumpRetries + SettleRetries - 1
<1>1. CASE retry < JumpRetries - 1
    <2>1. retry + 1 \in 0 .. JumpRetries + SettleRetries - 1
        BY <1>1, LoaderNumbers
    <2> QED
        BY <1>1, <2>1 DEF NextRetry
<1>2. CASE ~(retry < JumpRetries - 1)
    <2>1. loop < JumpLoops - 1 => loop + 1 \in 0 .. JumpLoops - 1
        BY LoaderNumbers
    <2>2. retry' = 0
        BY <1>2 DEF NextRetry
    <2>3. \/ loop < JumpLoops - 1 /\ lpc' = "jump back" /\ loop' = loop + 1
          \/ lpc' = "false" /\ loop' = loop
        BY <1>2 DEF NextRetry
    <2> QED
        BY <2>1, <2>2, <2>3, LoaderNumbers
<1> QED
    BY <1>1, <1>2

\* What holds of every step of a load.
LEMMA LoaderFrame ==
    ASSUME SessionInv, ~Returned, UNCHANGED session,
           LoaderTypeOK', BridgeTypeOK'
    PROVE  /\ TypeOK' /\ PowerOk'
           /\ ~isPowerOff /\ pc \in {"init drive", "init again"}
<1>1. ~isPowerOff /\ pc \in {"init drive", "init again"}
    BY DEF SessionInv, PowerOk, Returned
<1>2. UNCHANGED <<pc, call, isPowerOff, isInitFlash, sql>>
    BY DEF session, flags
<1>3. TypeOK'
    BY <1>2 DEF SessionInv, TypeOK
<1>4. PowerOk'
    BY <1>1, <1>2 DEF PowerOk, Resetting
<1> QED
    BY <1>1, <1>3, <1>4

\* A step of a load that only looks at the version.
LEMMA LookFrame ==
    ASSUME SessionInv, NEW ok \in BOOLEAN, Identify(ok), UNCHANGED session,
           ~Returned,
           lpc' \in {"true", "false", "probe again", "jump back", "force", "key",
                     "check", "settle"},
           loop' \in 0 .. JumpLoops - 1, seg' \in 0 .. SectorNo,
           retry' \in 0 .. JumpRetries + SettleRetries - 1,
           lpc' = "true" => fw' = "B",
           lpc' = "jump back" => ok /\ fw' # "B",
           lpc' \in {"force", "key"} => lpc = "jump back",
           lpc' = "force" => fw' # "R",
           lpc' = "key" => fw' = "R" /\ seg' = 0
    PROVE  SessionInv'
<1>1. /\ UNCHANGED <<mode, next, pram, outputs, rail, unheard>>
      /\ faults' \in 0 .. MaxFaults
      /\ ok => Answers /\ fw' = Letter
      /\ ~ok => fw' = fw
    BY IdentifyFacts DEF SessionInv, TypeOK
<1>2. BridgeTypeOK'
    BY <1>1 DEF SessionInv, TypeOK, BridgeTypeOK
<1>3. LoaderTypeOK'
    <2>1. LoaderTypeOK
        BY DEF SessionInv, TypeOK
    <2>2. fw' \in {"null", "unset", "F", "R", "B"}
        BY <1>1, <2>1 DEF LoaderTypeOK, Letter
    <2> QED
        BY <2>2 DEF LoaderTypeOK
<1>4. UNCHANGED isInitFlash
    BY DEF session, flags
<1>5. ControllerOk'
    BY <1>1, <1>4 DEF SessionInv, ControllerOk, Answers, Letter
<1>6. JumpOk'
    BY <1>1 DEF SessionInv, ControllerOk, JumpOk, Answers, Letter
<1>7. LoadOk'
    <2> SUFFICES ASSUME lpc' = "key" PROVE LoadOk'
        BY DEF LoadOk
    <2>1. mode = "rom" /\ next = "none"
        BY <1>1 DEF SessionInv, JumpOk, Answers, Letter
    <2>2. seg' = 0
        OBVIOUS
    <2>3. Placed(seg)' /\ seg' <= Segments
        BY <2>2, NothingPlaced DEF Placed
    <2> QED
        BY <1>1, <2>1, <2>3 DEF LoadOk
<1> QED
    BY <1>2, <1>3, <1>5, <1>6, <1>7, LoaderFrame DEF SessionInv

LEMMA LookingSteps ==
    ASSUME SessionInv, UNCHANGED session,
           Probe \/ ProbeAgain \/ JumpBack \/ Look \/ Check \/ Settle
    PROVE  SessionInv'
<1> USE DEF Returned, counters
<1>0. /\ loop \in 0 .. JumpLoops - 1 /\ seg \in 0 .. SectorNo
      /\ retry \in 0 .. JumpRetries + SettleRetries - 1
    BY CounterTypes
<1>1. CASE Probe
    <2>1. PICK ok \in BOOLEAN :
            /\ Identify(ok)
            /\ lpc' = IF ok THEN "probe again" ELSE "false"
        BY <1>1 DEF Probe
    <2>2. /\ loop' \in 0 .. JumpLoops - 1 /\ seg' \in 0 .. SectorNo
          /\ retry' \in 0 .. JumpRetries + SettleRetries - 1
        BY <1>0, <1>1, <2>1, LoaderNumbers DEF Probe
    <2> QED
        BY <1>1, <2>1, <2>2, LookFrame DEF Probe
<1>2. CASE ProbeAgain
    <2>1. PICK ok \in BOOLEAN :
            /\ Identify(ok)
            /\ lpc' = IF ~ok THEN "false" ELSE IF fw' = "B" THEN "settle" ELSE "jump back"
        BY <1>2 DEF ProbeAgain
    <2>2. /\ loop' \in 0 .. JumpLoops - 1 /\ seg' \in 0 .. SectorNo
          /\ retry' \in 0 .. JumpRetries + SettleRetries - 1
        BY <1>0, <1>2, <2>1, LoaderNumbers DEF ProbeAgain
    <2> QED
        BY <1>2, <2>1, <2>2, LookFrame DEF ProbeAgain
<1>3. CASE JumpBack
    <2>1. PICK ok \in BOOLEAN : Identify(ok)
        BY <1>3 DEF JumpBack
    <2>2. /\ loop' \in 0 .. JumpLoops - 1 /\ seg' \in 0 .. SectorNo
          /\ retry' \in 0 .. JumpRetries + SettleRetries - 1
        BY <1>0, <1>3, <2>1, LoaderNumbers DEF JumpBack
    <2> QED
        BY <1>3, <2>1, <2>2, LookFrame DEF JumpBack
<1>4. CASE Look
    <2>1. PICK ok \in BOOLEAN : Identify(ok)
        BY <1>4 DEF Look
    <2>2. /\ loop' \in 0 .. JumpLoops - 1 /\ seg' \in 0 .. SectorNo
          /\ retry' \in 0 .. JumpRetries + SettleRetries - 1
        BY <1>0, <1>4, <2>1, LoaderNumbers DEF Look
    <2> QED
        BY <1>4, <2>1, <2>2, LookFrame DEF Look
<1>5. CASE Check
    <2>1. PICK ok \in BOOLEAN :
            /\ Identify(ok)
            /\ lpc' = IF ok /\ fw' = "B" THEN "settle" ELSE "false"
        BY <1>5 DEF Check
    <2>2. /\ loop' \in 0 .. JumpLoops - 1 /\ seg' \in 0 .. SectorNo
          /\ retry' \in 0 .. JumpRetries + SettleRetries - 1
        BY <1>0, <1>5, <2>1, LoaderNumbers DEF Check
    <2> QED
        BY <1>5, <2>1, <2>2, LookFrame DEF Check
<1>6. CASE Settle
    <2>1. PICK ok \in BOOLEAN :
            /\ Identify(ok)
            /\ IF ok /\ fw' = "B" THEN lpc' = "true" /\ UNCHANGED retry
               ELSE IF retry < SettleRetries - 1
               THEN UNCHANGED lpc /\ retry' = retry + 1
               ELSE lpc' = (IF fw' = "B" THEN "true" ELSE "false") /\ UNCHANGED retry
        BY <1>6 DEF Settle
    <2>2. /\ loop' \in 0 .. JumpLoops - 1 /\ seg' \in 0 .. SectorNo
          /\ retry' \in 0 .. JumpRetries + SettleRetries - 1
        BY <1>0, <1>6, <2>1, LoaderNumbers DEF Settle
    <2> QED
        BY <1>6, <2>1, <2>2, LookFrame DEF Settle
<1> QED
    BY <1>1, <1>2, <1>3, <1>4, <1>5, <1>6

\* The jump to the boot ROM is asked for, and looked at again.
LEMMA ForceStep ==
    ASSUME SessionInv, UNCHANGED session, ForceToBootRom
    PROVE  SessionInv'
<1>1. PICK done \in BOOLEAN, ret \in BOOLEAN :
          /\ Flow(TRUE, done, ret)
          /\ IF done THEN StartsUp("rom") ELSE UNCHANGED controller
    BY DEF ForceToBootRom
<1>2. /\ lpc = "force" /\ NextRetry
      /\ UNCHANGED <<seg, fw, outputs, rail, unheard>>
    BY DEF ForceToBootRom, tester
<1>3. faults' \in 0 .. MaxFaults /\ (done => Answers)
    BY <1>1, FlowFacts DEF SessionInv, TypeOK, BridgeTypeOK
<1>4. /\ mode' = mode /\ next' \in {next, "rom"}
      /\ pram' \in {pram, NoImage}
    BY <1>1 DEF StartsUp, controller
<1>5. BridgeTypeOK'
    <2>1. pram' \in [Place -> Place \cup {Blank}]
        BY <1>4 DEF SessionInv, TypeOK, BridgeTypeOK, NoImage
    <2>2. mode' \in Modes /\ next' \in Modes \cup {"none"}
        BY <1>4 DEF SessionInv, TypeOK, BridgeTypeOK, Modes
    <2>3. {outputs', rail', unheard'} \subseteq BOOLEAN
        BY <1>2 DEF SessionInv, TypeOK, BridgeTypeOK
    <2> QED
        BY <1>3, <2>1, <2>2, <2>3 DEF BridgeTypeOK
<1>6. /\ lpc' \in {"jump back", "false"}
      /\ loop' \in 0 .. JumpLoops - 1
      /\ retry' \in 0 .. JumpRetries + SettleRetries - 1
    BY <1>2, CounterTypes, NextRetryTypes
<1>7. LoaderTypeOK'
    BY <1>2, <1>6 DEF SessionInv, TypeOK, LoaderTypeOK
<1>8. TypeOK' /\ PowerOk'
    BY <1>2, <1>5, <1>7, LoaderFrame DEF Returned
<1>9. /\ mode \in {"firmware", "rom"} /\ next \in {"none", "rom"} /\ fw = "F"
    BY <1>2 DEF SessionInv, JumpOk
<1>10. ControllerOk'
    <2>1. isInitFlash' = isInitFlash
        BY DEF session, flags
    <2> QED
        BY <1>2, <1>4, <1>6, <1>9, <2>1 DEF SessionInv, ControllerOk
<1>11. JumpOk'
    BY <1>2, <1>4, <1>6, <1>9 DEF JumpOk
<1>12. LoadOk'
    BY <1>6 DEF LoadOk
<1> QED
    BY <1>8, <1>10, <1>11, <1>12 DEF SessionInv

\* The steps that program the image and start it have the controller in its
\* boot ROM.
LEMMA KeyStep ==
    ASSUME SessionInv, UNCHANGED session, Key
    PROVE  SessionInv'
<1>1. PICK done \in BOOLEAN, ret \in BOOLEAN :
          /\ Flow(FALSE, done, ret)
          /\ \/ lpc' = IF seg < Segments THEN "segment" ELSE "start"
             \/ lpc' \in {"settle", "aborted"}
    BY DEF Key, KeyFails
<1>2. /\ lpc = "key" /\ retry' = 0
      /\ UNCHANGED <<loop, seg, fw, mode, next, pram, outputs, rail, unheard>>
    BY DEF Key, controller, tester
<1>3. faults' \in 0 .. MaxFaults
    BY <1>1, FlowFacts DEF SessionInv, TypeOK, BridgeTypeOK
<1>4. BridgeTypeOK'
    BY <1>2, <1>3 DEF SessionInv, TypeOK, BridgeTypeOK
<1>5. LoaderTypeOK'
    BY <1>1, <1>2, LoaderNumbers DEF SessionInv, TypeOK, LoaderTypeOK
<1>6. TypeOK' /\ PowerOk'
    BY <1>2, <1>4, <1>5, LoaderFrame DEF Returned
<1>7. /\ mode = "rom" /\ next = "none" /\ seg <= Segments /\ Placed(seg)
    BY <1>2 DEF SessionInv, LoadOk
<1>8. ControllerOk' /\ JumpOk'
    <2>1. isInitFlash' = isInitFlash
        BY DEF session, flags
    <2> QED
        BY <1>1, <1>2, <1>7, <2>1 DEF SessionInv, ControllerOk, JumpOk
<1>9. LoadOk'
    <2>1. Placed(seg)'
        BY <1>2, <1>7 DEF Placed
    <2>2. seg \in Nat /\ Segments \in Nat
        BY CounterTypes, SegmentsFacts
    <2>3. lpc' = "segment" => seg < Segments
        BY <1>1
    <2>4. lpc' = "start" => seg = Segments
        <3>1. lpc' = "start" => ~(seg < Segments)
            BY <1>1
        <3> QED
            BY <1>7, <2>2, <3>1
    <2> QED
        BY <1>2, <1>7, <2>1, <2>3, <2>4 DEF LoadOk
<1> QED
    BY <1>6, <1>8, <1>9 DEF SessionInv

LEMMA SegmentStep ==
    ASSUME SessionInv, UNCHANGED session, Segment
    PROVE  SessionInv'
<1>1. PICK done \in BOOLEAN, ret \in BOOLEAN :
          /\ Flow(FALSE, done, ret)
          /\ pram' = IF done THEN Programmed(seg) ELSE pram
          /\ IF ret THEN lpc' = "key" /\ seg' = seg + 1
             ELSE lpc' = "false" /\ UNCHANGED seg
    BY DEF Segment
<1>2. /\ lpc = "segment"
      /\ UNCHANGED <<loop, retry, fw, mode, next, outputs, rail, unheard>>
    BY DEF Segment, tester
<1>3. faults' \in 0 .. MaxFaults /\ (ret => done)
    BY <1>1, FlowFacts DEF SessionInv, TypeOK, BridgeTypeOK
<1>4. /\ mode = "rom" /\ next = "none" /\ seg < Segments /\ Placed(seg)
      /\ seg \in Nat /\ Segments \in Nat /\ Segments <= SectorNo /\ SectorNo \in Nat
      /\ pram \in [Place -> Place \cup {Blank}]
    <2>1. mode = "rom" /\ next = "none" /\ seg < Segments /\ Placed(seg)
        BY <1>2 DEF SessionInv, LoadOk
    <2>2. seg \in Nat
        BY CounterTypes
    <2>3. pram \in [Place -> Place \cup {Blank}]
        BY DEF SessionInv, TypeOK, BridgeTypeOK
    <2> QED
        BY <2>1, <2>2, <2>3, SegmentsFacts
<1>5. /\ Programmed(seg) \in [Place -> Place \cup {Blank}]
      /\ \A p \in Place : p < (seg + 1) * UbCount => Programmed(seg)[p] = p
    BY <1>4, ProgrammedPrefix
<1>6. BridgeTypeOK'
    <2>1. pram' \in [Place -> Place \cup {Blank}]
        BY <1>1, <1>4, <1>5
    <2> QED
        BY <1>2, <1>3, <2>1 DEF SessionInv, TypeOK, BridgeTypeOK
<1>7. seg' \in 0 .. SectorNo /\ lpc' \in {"key", "false"}
    BY <1>1, <1>4
<1>8. LoaderTypeOK'
    BY <1>2, <1>7 DEF SessionInv, TypeOK, LoaderTypeOK
<1>9. TypeOK' /\ PowerOk'
    BY <1>2, <1>6, <1>8, LoaderFrame DEF Returned
<1>10. ControllerOk' /\ JumpOk'
    <2>1. isInitFlash' = isInitFlash
        BY DEF session, flags
    <2> QED
        BY <1>2, <1>4, <1>7, <2>1 DEF SessionInv, ControllerOk, JumpOk
<1>11. LoadOk'
    <2> SUFFICES ASSUME lpc' = "key" PROVE LoadOk'
        BY <1>7 DEF LoadOk
    <2>1. seg' = seg + 1 /\ pram' = Programmed(seg)
        BY <1>1, <1>3
    <2>2. Placed(seg)'
        BY <1>5, <2>1 DEF Placed
    <2>3. seg' <= Segments
        BY <1>4, <2>1
    <2> QED
        BY <1>2, <1>4, <2>2, <2>3 DEF LoadOk
<1> QED
    BY <1>9, <1>10, <1>11 DEF SessionInv

\* What is started is the whole image.
LEMMA StartStep ==
    ASSUME SessionInv, UNCHANGED session, Start
    PROVE  SessionInv'
<1>1. PICK done \in BOOLEAN, ret \in BOOLEAN :
          /\ Flow(TRUE, done, ret)
          /\ IF done THEN StartsUp(IF Complete THEN "burner" ELSE "lost")
             ELSE UNCHANGED controller
          /\ lpc' = IF ret THEN "look" ELSE "false"
    BY DEF Start
<1>2. /\ lpc = "start"
      /\ UNCHANGED <<loop, retry, seg, fw, outputs, rail, unheard>>
    BY DEF Start, counters, tester
<1>3. faults' \in 0 .. MaxFaults
    BY <1>1, FlowFacts DEF SessionInv, TypeOK, BridgeTypeOK
<1>4. mode = "rom" /\ next = "none" /\ seg = Segments /\ Placed(seg)
    BY <1>2 DEF SessionInv, LoadOk
<1>5. Complete
    BY <1>4, AllPlaced
<1>6. /\ mode' = mode /\ next' \in {"none", "burner"}
      /\ pram' \in {pram, NoImage} /\ lpc' \in {"look", "false"}
    BY <1>1, <1>4, <1>5 DEF StartsUp, controller
<1>7. BridgeTypeOK'
    <2>1. pram' \in [Place -> Place \cup {Blank}]
        BY <1>6 DEF SessionInv, TypeOK, BridgeTypeOK, NoImage
    <2>2. mode' \in Modes /\ next' \in Modes \cup {"none"}
        BY <1>4, <1>6 DEF Modes
    <2>3. {outputs', rail', unheard'} \subseteq BOOLEAN
        BY <1>2 DEF SessionInv, TypeOK, BridgeTypeOK
    <2> QED
        BY <1>3, <2>1, <2>2, <2>3 DEF BridgeTypeOK
<1>8. LoaderTypeOK'
    BY <1>2, <1>6 DEF SessionInv, TypeOK, LoaderTypeOK
<1>9. TypeOK' /\ PowerOk'
    BY <1>2, <1>7, <1>8, LoaderFrame DEF Returned
<1>10. ControllerOk' /\ JumpOk' /\ LoadOk'
    <2>1. isInitFlash' = isInitFlash
        BY DEF session, flags
    <2> QED
        BY <1>2, <1>4, <1>6, <2>1 DEF SessionInv, ControllerOk, JumpOk, LoadOk
<1> QED
    BY <1>9, <1>10 DEF SessionInv

LEMMA InitDriveStep ==
    ASSUME SessionInv, InitDrive
    PROVE  SessionInv'
<1>1. LoaderStep /\ UNCHANGED session
    BY DEF InitDrive
<1> QED
    BY <1>1, LookingSteps, ForceStep, KeyStep, SegmentStep, StartStep DEF LoaderStep

-----------------------------------------------------------------------------
\* The bridge's own commands

LEMMA InquiryFacts ==
    ASSUME NEW ok \in BOOLEAN, Inquiry(ok), BridgeTypeOK
    PROVE  UNCHANGED <<mode, next, pram>> /\ BridgeTypeOK'
<1>1. UNCHANGED <<mode, next, pram, outputs, rail, unheard>>
    BY DEF Inquiry, controller, tester
<1>2. faults' \in 0 .. MaxFaults
    BY FaultType DEF Inquiry, BridgeTypeOK
<1> QED
    BY <1>1, <1>2 DEF BridgeTypeOK

LEMMA I2cFacts ==
    ASSUME NEW done \in BOOLEAN, I2c(done), BridgeTypeOK
    PROVE  faults' \in 0 .. MaxFaults /\ unheard' \in BOOLEAN
<1>1. CASE done /\ UNCHANGED <<faults, unheard>>
    BY <1>1 DEF BridgeTypeOK
<1>2. CASE ~done /\ Fault /\ unheard' = TRUE
    BY <1>2, FaultType DEF BridgeTypeOK
<1> QED
    BY <1>1, <1>2 DEF I2c

LEMMA I2cInitFacts ==
    ASSUME I2cInit, BridgeTypeOK
    PROVE  UNCHANGED <<mode, next, pram>> /\ BridgeTypeOK'
<1>1. PICK done \in BOOLEAN : I2c(done) /\ outputs' = (outputs \/ done)
    BY DEF I2cInit
<1>2. UNCHANGED <<mode, next, pram, rail>>
    BY DEF I2cInit, controller
<1>3. faults' \in 0 .. MaxFaults /\ unheard' \in BOOLEAN
    BY <1>1, I2cFacts
<1>4. outputs' \in BOOLEAN
    BY <1>1
<1> QED
    BY <1>2, <1>3, <1>4 DEF BridgeTypeOK

LEMMA I2cPowerFacts ==
    ASSUME I2cPower, BridgeTypeOK
    PROVE  UNCHANGED <<mode, next, pram>> /\ BridgeTypeOK'
<1>1. PICK done \in BOOLEAN :
          I2c(done) /\ IF done THEN rail' = outputs ELSE rail' \in {FALSE, outputs}
    BY DEF I2cPower
<1>2. UNCHANGED <<mode, next, pram, outputs>>
    BY DEF I2cPower, controller
<1>3. faults' \in 0 .. MaxFaults /\ unheard' \in BOOLEAN
    BY <1>1, I2cFacts
<1>4. rail' \in BOOLEAN
    BY <1>1 DEF BridgeTypeOK
<1> QED
    BY <1>2, <1>3, <1>4 DEF BridgeTypeOK

LEMMA BridgeCmdFacts ==
    ASSUME NEW done \in BOOLEAN, NEW ret \in BOOLEAN, BridgeCmd(done, ret), BridgeTypeOK
    PROVE  faults' \in 0 .. MaxFaults
BY FaultType DEF BridgeCmd, BridgeTypeOK

LEMMA NoImageType == NoImage \in [Place -> Place \cup {Blank}]
BY DEF NoImage

LEMMA PowerOffFacts ==
    ASSUME NEW ret \in BOOLEAN, PowerOff(ret), BridgeTypeOK
    PROVE  /\ mode' \in {mode, "off"} /\ next' \in {next, "none"}
           /\ BridgeTypeOK'
<1>1. PICK done \in BOOLEAN :
          /\ BridgeCmd(done, ret)
          /\ IF done THEN mode' = "off" /\ next' = "none" /\ pram' = NoImage
             ELSE UNCHANGED controller
    BY DEF PowerOff
<1>2. UNCHANGED <<outputs, rail, unheard>>
    BY DEF PowerOff, tester
<1>3. faults' \in 0 .. MaxFaults
    BY <1>1, BridgeCmdFacts
<1>4. /\ mode' \in {mode, "off"} /\ next' \in {next, "none"}
      /\ pram' \in {pram, NoImage}
    BY <1>1 DEF controller
<1>5. pram' \in [Place -> Place \cup {Blank}]
    BY <1>4, NoImageType DEF BridgeTypeOK
<1>6. mode' \in Modes /\ next' \in Modes \cup {"none"}
    BY <1>4 DEF BridgeTypeOK, Modes
<1> QED
    BY <1>2, <1>3, <1>4, <1>5, <1>6 DEF BridgeTypeOK

LEMMA PowerOnFacts ==
    ASSUME NEW ret \in BOOLEAN, PowerOn(ret), BridgeTypeOK
    PROVE  /\ mode' = mode /\ next' \in {next, "firmware", "rom"}
           /\ BridgeTypeOK'
<1>1. PICK done \in BOOLEAN :
          /\ BridgeCmd(done, ret)
          /\ unheard' = (unheard \/ (ret /\ ~done))
          /\ IF done /\ rail
             THEN \E what \in {"firmware", "rom"} : StartsUp(what)
             ELSE UNCHANGED controller
    BY DEF PowerOn
<1>2. UNCHANGED <<outputs, rail>> /\ unheard' \in BOOLEAN
    BY <1>1, Zenon DEF PowerOn, tester, BridgeTypeOK
<1>3. faults' \in 0 .. MaxFaults
    BY <1>1, BridgeCmdFacts
<1>4. /\ mode' = mode /\ next' \in {next, "firmware", "rom"}
      /\ pram' \in {pram, NoImage}
    BY <1>1 DEF controller, StartsUp
<1>5. pram' \in [Place -> Place \cup {Blank}]
    BY <1>4, NoImageType DEF BridgeTypeOK
<1>6. mode' \in Modes /\ next' \in Modes \cup {"none"}
    BY <1>4 DEF BridgeTypeOK, Modes
<1> QED
    BY <1>2, <1>3, <1>4, <1>5, <1>6 DEF BridgeTypeOK

\* A command that changes nothing in the controller.
LEMMA AskFacts ==
    ASSUME NEW understood, NEW ok \in BOOLEAN, Ask(understood, ok), BridgeTypeOK
    PROVE  /\ UNCHANGED <<mode, next, pram>> /\ BridgeTypeOK'
           /\ ok => understood
<1>1. PICK done \in BOOLEAN, ret \in BOOLEAN :
          Flow(FALSE, done, ret) /\ ok = (ret /\ understood)
    BY DEF Ask
<1>2. UNCHANGED <<mode, next, pram, outputs, rail, unheard>>
    BY DEF Ask, controller, tester
<1>3. faults' \in 0 .. MaxFaults /\ (ret => Answers)
    BY <1>1, FlowFacts DEF BridgeTypeOK
<1>4. BridgeTypeOK'
    BY <1>2, <1>3 DEF BridgeTypeOK
<1> QED
    BY <1>1, <1>2, <1>3, <1>4

-----------------------------------------------------------------------------
\* The steps between loads

\* What all of them have in common: the controller is left alone, and the
\* loader, but that a load may begin.
LEMMA CallFrame ==
    ASSUME SessionInv, Returned,
           UNCHANGED <<mode, next, pram, loop, retry, seg, isPowerOff>>, BridgeTypeOK',
           lpc' \in {lpc, "probe"},
           \/ fw' \in {fw, "null", "unset"}
           \/ Answers /\ fw' = Letter,
           isInitFlash' \in BOOLEAN, sql' \in BOOLEAN,
           isInitFlash' => isInitFlash \/ mode = "burner",
           call' \in Calls,
           pc' \in {"idle", "inquiry", "reset", "i2c init", "power off", "i2c power",
                     "power on", "identify", "id", "init drive", "fw version",
                     "init again", "fw version again", "last id", "parameters"},
           ~isPowerOff => pc' \notin Resetting,
           isPowerOff => /\ fw' = "null" /\ lpc' = lpc
                         /\ isInitFlash' = isInitFlash
                         /\ pc' \in {"idle", "inquiry"} \cup Resetting,
           lpc' = "probe" => pc' \in {"init drive", "init again"}
    PROVE  SessionInv'
<1>1. lpc \in {"true", "false"} /\ fw \in {"null", "unset", "F", "R", "B"}
    BY DEF Returned, SessionInv, TypeOK, LoaderTypeOK
<1>2. fw' \in {"null", "unset", "F", "R", "B"}
    BY <1>1 DEF Letter
<1>3. LoaderTypeOK'
    <2>1. lpc' \in {"true", "false", "probe"}
        BY <1>1
    <2> QED
        BY <1>2, <2>1 DEF SessionInv, TypeOK, LoaderTypeOK
<1>4. TypeOK'
    <2>1. isPowerOff' \in BOOLEAN
        BY DEF SessionInv, TypeOK
    <2>2. {isPowerOff', isInitFlash', sql'} \subseteq BOOLEAN
        BY <2>1
    <2> QED
        BY <1>3, <2>2 DEF TypeOK, Calls
<1>5. PowerOk'
    BY <1>1 DEF SessionInv, PowerOk, Returned
<1>6. ControllerOk'
    BY <1>1 DEF SessionInv, ControllerOk, Answers, Letter
<1>7. JumpOk' /\ LoadOk'
    BY <1>1 DEF JumpOk, LoadOk
<1> QED
    BY <1>4, <1>5, <1>6, <1>7 DEF SessionInv

\* What the steps below start from.
LEMMA BetweenLoads ==
    ASSUME SessionInv, Returned \/ pc \notin {"init drive", "init again"}
    PROVE  /\ Returned /\ BridgeTypeOK
           /\ isInitFlash \in BOOLEAN /\ sql \in BOOLEAN /\ isPowerOff \in BOOLEAN
           /\ call \in Calls
           /\ isPowerOff => /\ fw = "null" /\ ~isInitFlash
                            /\ pc \in {"idle", "inquiry"} \cup Resetting
           /\ pc \in Resetting => isPowerOff
<1>1. Returned /\ BridgeTypeOK /\ call \in Calls
    BY DEF SessionInv, PowerOk, TypeOK
<1>2. isInitFlash \in BOOLEAN /\ sql \in BOOLEAN /\ isPowerOff \in BOOLEAN
    BY DEF SessionInv, TypeOK
<1>3. /\ isPowerOff => /\ fw = "null" /\ ~isInitFlash
                       /\ pc \in {"idle", "inquiry"} \cup Resetting
      /\ pc \in Resetting => isPowerOff
    BY DEF SessionInv, PowerOk
<1> QED
    BY <1>1, <1>2, <1>3

LEMMA InitPhyDriveStep ==
    ASSUME SessionInv, InitPhyDrive
    PROVE  SessionInv'
<1>1. /\ pc = "idle" /\ pc' = "inquiry"
      /\ UNCHANGED <<call, isPowerOff, isInitFlash, sql, mode, next, pram, outputs, rail,
                     faults, unheard, lpc, loop, retry, seg, fw>>
    BY DEF InitPhyDrive, flags, bridgeVars, controller, tester, loader, counters
<1>2. Returned /\ BridgeTypeOK
    BY <1>1, BetweenLoads
<1>3. BridgeTypeOK'
    BY <1>1, <1>2 DEF BridgeTypeOK
<1> QED
    BY <1>1, <1>2, <1>3, BetweenLoads, CallFrame DEF Resetting, Returned

LEMMA LoadStep ==
    ASSUME SessionInv, NEW c \in Calls, Load(c)
    PROVE  SessionInv'
<1>1. /\ pc = "idle" /\ pc' = "id" /\ call' = c /\ fw # "null"
      /\ UNCHANGED <<isPowerOff, isInitFlash, sql, mode, next, pram, outputs, rail,
                     faults, unheard, lpc, loop, retry, seg, fw>>
    BY DEF Load, flags, bridgeVars, controller, tester, loader, counters
<1>2. Returned /\ BridgeTypeOK
    BY <1>1, BetweenLoads
<1>3. BridgeTypeOK'
    BY <1>1, <1>2 DEF BridgeTypeOK
<1> QED
    BY <1>1, <1>2, <1>3, BetweenLoads, CallFrame DEF Resetting, Returned

LEMMA EndDLLStep ==
    ASSUME SessionInv, EndDLL
    PROVE  SessionInv'
<1>1. /\ pc = "idle" /\ pc' = pc /\ fw # "null" /\ fw' = "null" /\ sql' = FALSE
      /\ UNCHANGED <<call, isPowerOff, isInitFlash, mode, next, pram, outputs, rail,
                     faults, unheard, lpc, loop, retry, seg>>
    BY DEF EndDLL, bridgeVars, controller, tester, counters
<1>2. Returned /\ BridgeTypeOK
    BY <1>1, BetweenLoads
<1>3. BridgeTypeOK'
    BY <1>1, <1>2 DEF BridgeTypeOK
<1> QED
    BY <1>1, <1>2, <1>3, BetweenLoads, CallFrame DEF Resetting, Returned

LEMMA DetectStep ==
    ASSUME SessionInv, Detect
    PROVE  SessionInv'
<1>1. /\ pc = "inquiry"
      /\ UNCHANGED <<call, isPowerOff, isInitFlash, sql, lpc, loop, retry, seg, fw>>
    BY DEF Detect, flags, loader, counters
<1>2. Returned /\ BridgeTypeOK
    BY <1>1, BetweenLoads
<1>3. PICK ok \in BOOLEAN :
          Inquiry(ok) /\ GoOn(ok, IF isPowerOff THEN "reset" ELSE "identify")
    BY DEF Detect
<1>4. /\ UNCHANGED <<mode, next, pram>> /\ BridgeTypeOK'
      /\ pc' \in {"idle", IF isPowerOff THEN "reset" ELSE "identify"}
    BY <1>2, <1>3, InquiryFacts DEF GoOn
<1> QED
    BY <1>1, <1>2, <1>3, <1>4, BetweenLoads, CallFrame DEF Resetting, Returned

LEMMA ResetInquiryStep ==
    ASSUME SessionInv, ResetInquiry
    PROVE  SessionInv'
<1>1. /\ pc = "reset"
      /\ UNCHANGED <<call, isPowerOff, isInitFlash, sql, lpc, loop, retry, seg, fw>>
    BY DEF ResetInquiry, flags, loader, counters
<1>2. Returned /\ BridgeTypeOK
    BY <1>1, BetweenLoads
<1>3. PICK ok \in BOOLEAN : Inquiry(ok) /\ GoOn(ok, "i2c init")
    BY DEF ResetInquiry
<1>4. /\ UNCHANGED <<mode, next, pram>> /\ BridgeTypeOK'
      /\ pc' \in {"idle", "i2c init"}
    BY <1>2, <1>3, InquiryFacts DEF GoOn
<1> QED
    BY <1>1, <1>2, <1>3, <1>4, BetweenLoads, CallFrame DEF Resetting, Returned

LEMMA ResetI2cStep ==
    ASSUME SessionInv, ResetI2c
    PROVE  SessionInv'
<1>1. /\ pc = "i2c init" /\ pc' = "power off"
      /\ UNCHANGED <<call, isPowerOff, isInitFlash, sql, lpc, loop, retry, seg, fw>>
    BY DEF ResetI2c, flags, loader, counters
<1>2. Returned /\ BridgeTypeOK
    BY <1>1, BetweenLoads
<1>3. I2cInit
    BY DEF ResetI2c
<1>4. UNCHANGED <<mode, next, pram>> /\ BridgeTypeOK'
    BY <1>2, <1>3, I2cInitFacts
<1> QED
    BY <1>1, <1>2, <1>3, <1>4, BetweenLoads, CallFrame DEF Resetting, Returned

LEMMA ResetSwitchStep ==
    ASSUME SessionInv, ResetSwitch
    PROVE  SessionInv'
<1>1. /\ pc = "i2c power" /\ pc' = "power on"
      /\ UNCHANGED <<call, isPowerOff, isInitFlash, sql, lpc, loop, retry, seg, fw>>
    BY DEF ResetSwitch, flags, loader, counters
<1>2. Returned /\ BridgeTypeOK
    BY <1>1, BetweenLoads
<1>3. I2cPower
    BY DEF ResetSwitch
<1>4. UNCHANGED <<mode, next, pram>> /\ BridgeTypeOK'
    BY <1>2, <1>3, I2cPowerFacts
<1> QED
    BY <1>1, <1>2, <1>3, <1>4, BetweenLoads, CallFrame DEF Resetting, Returned

LEMMA NewDriveStep ==
    ASSUME SessionInv, NewDrive
    PROVE  SessionInv'
<1>1. /\ pc = "identify" /\ pc' = "idle"
      /\ UNCHANGED <<mode, next, pram, outputs, rail, unheard, call, isPowerOff, isInitFlash,
                     lpc, loop, retry, seg>>
    BY DEF NewDrive, controller, tester, counters
<1>2. Returned /\ BridgeTypeOK
    BY <1>1, BetweenLoads
<1>3. PICK done \in BOOLEAN, ret \in BOOLEAN :
          /\ Flow(FALSE, done, ret)
          /\ IF ret THEN fw' = "unset" /\ sql' = FALSE ELSE UNCHANGED <<fw, sql>>
    BY DEF NewDrive
<1>4. BridgeTypeOK' /\ fw' \in {fw, "unset"} /\ sql' \in {sql, FALSE}
    BY <1>1, <1>2, <1>3, FlowFacts DEF BridgeTypeOK
<1> QED
    BY <1>1, <1>2, <1>3, <1>4, BetweenLoads, CallFrame DEF Resetting, Returned

LEMMA FirstIdStep ==
    ASSUME SessionInv, FirstId
    PROVE  SessionInv'
<1>1. /\ pc = "id"
      /\ UNCHANGED <<call, isPowerOff, isInitFlash, sql>>
    BY DEF FirstId, flags
<1>2. Returned /\ BridgeTypeOK
    BY <1>1, BetweenLoads
<1>3. PICK ok \in BOOLEAN :
          /\ Ask(IdAnswered, ok)
          /\ GoOn(ok, "init drive")
          /\ IF ok THEN BeginInitDrive ELSE UNCHANGED loader
    BY DEF FirstId
<1>4. /\ UNCHANGED <<mode, next, pram, loop, retry, seg, fw>> /\ BridgeTypeOK'
      /\ pc' = IF ok THEN "init drive" ELSE "idle"
      /\ lpc' = IF ok THEN "probe" ELSE lpc
    BY <1>2, <1>3, AskFacts DEF GoOn, BeginInitDrive, loader, counters
<1> QED
    BY <1>1, <1>2, <1>3, <1>4, BetweenLoads, CallFrame DEF Resetting, Returned

LEMMA SetFlashIDStep ==
    ASSUME SessionInv, SetFlashID
    PROVE  SessionInv'
<1>1. /\ pc = "idle" /\ pc' = pc /\ fw # "null" /\ sql' = TRUE
      /\ UNCHANGED <<call, isPowerOff, isInitFlash, lpc, loop, retry, seg, fw>>
    BY DEF SetFlashID, loader, counters
<1>2. Returned /\ BridgeTypeOK
    BY <1>1, BetweenLoads
<1>3. PICK ok \in BOOLEAN : Ask(IdAnswered, ok)
    BY DEF SetFlashID
<1>4. UNCHANGED <<mode, next, pram>> /\ BridgeTypeOK'
    BY <1>2, <1>3, AskFacts
<1> QED
    BY <1>1, <1>2, <1>3, <1>4, BetweenLoads, CallFrame DEF Resetting, Returned

LEMMA InitDriveDoneStep ==
    ASSUME SessionInv, InitDriveDone
    PROVE  SessionInv'
<1>1. /\ pc = "init drive" /\ Returned /\ pc' \in {"idle", "fw version"}
      /\ sql' = (sql \/ lpc = "true")
      /\ UNCHANGED <<call, isPowerOff, isInitFlash, mode, next, pram, outputs, rail,
                     faults, unheard, lpc, loop, retry, seg, fw>>
    BY DEF InitDriveDone, GoOn, flags, bridgeVars, controller, tester, loader, counters
<1>2. BridgeTypeOK /\ sql \in BOOLEAN
    BY <1>1, BetweenLoads
<1>3. BridgeTypeOK' /\ sql' \in BOOLEAN
    BY <1>1, <1>2 DEF BridgeTypeOK
<1> QED
    BY <1>1, <1>3, BetweenLoads, CallFrame DEF Resetting, Returned

LEMMA InitAgainDoneStep ==
    ASSUME SessionInv, InitAgainDone
    PROVE  SessionInv'
<1>1. /\ pc = "init again" /\ Returned /\ pc' \in {"fw version again", "last id"}
      /\ UNCHANGED <<call, isPowerOff, isInitFlash, sql, mode, next, pram, outputs, rail,
                     faults, unheard, lpc, loop, retry, seg, fw>>
    BY DEF InitAgainDone, GoOn, flags, bridgeVars, controller, tester, loader, counters
<1>2. BridgeTypeOK /\ sql \in BOOLEAN
    BY <1>1, BetweenLoads
<1>3. BridgeTypeOK' /\ sql' \in BOOLEAN
    BY <1>1, <1>2 DEF BridgeTypeOK
<1> QED
    BY <1>1, <1>3, BetweenLoads, CallFrame DEF Resetting, Returned

LEMMA FwVersionStep ==
    ASSUME SessionInv, FwVersion
    PROVE  SessionInv'
<1>1. /\ pc = "fw version"
      /\ \/ pc' = "last id" /\ lpc' = lpc
         \/ pc' = "init again" /\ lpc' = "probe"
      /\ UNCHANGED <<call, isPowerOff, isInitFlash, sql, loop, retry, seg>>
    BY DEF FwVersion, flags, counters
<1>2. Returned /\ BridgeTypeOK
    BY <1>1, BetweenLoads
<1>3. PICK ok \in BOOLEAN : Identify(ok)
    BY DEF FwVersion
<1>4. /\ UNCHANGED <<mode, next, pram>> /\ BridgeTypeOK'
      /\ fw' = fw \/ (Answers /\ fw' = Letter)
    BY <1>2, <1>3, IdentifyFacts DEF BridgeTypeOK
<1> QED
    BY <1>1, <1>2, <1>3, <1>4, BetweenLoads, CallFrame DEF Resetting, Returned

LEMMA FwVersionAgainStep ==
    ASSUME SessionInv, FwVersionAgain
    PROVE  SessionInv'
<1>1. /\ pc = "fw version again" /\ pc' = "last id"
      /\ UNCHANGED <<call, isPowerOff, isInitFlash, sql, lpc, loop, retry, seg>>
    BY DEF FwVersionAgain, flags, counters
<1>2. Returned /\ BridgeTypeOK
    BY <1>1, BetweenLoads
<1>3. PICK ok \in BOOLEAN : Identify(ok)
    BY DEF FwVersionAgain
<1>4. /\ UNCHANGED <<mode, next, pram>> /\ BridgeTypeOK'
      /\ fw' = fw \/ (Answers /\ fw' = Letter)
    BY <1>2, <1>3, IdentifyFacts DEF BridgeTypeOK
<1> QED
    BY <1>1, <1>2, <1>3, <1>4, BetweenLoads, CallFrame DEF Resetting, Returned

LEMMA LastIdStep ==
    ASSUME SessionInv, LastId
    PROVE  SessionInv'
<1>1. /\ pc = "last id"
      /\ UNCHANGED <<call, isPowerOff, sql, lpc, loop, retry, seg, fw>>
    BY DEF LastId, loader, counters
<1>2. Returned /\ BridgeTypeOK
    BY <1>1, BetweenLoads
<1>3. PICK ok \in BOOLEAN :
          /\ Ask(IF call = "InitialBurner" THEN mode = "burner" ELSE IdAnswered, ok)
          /\ GoOn(ok /\ call = "InitialFlash", "parameters")
          /\ isInitFlash' = (isInitFlash \/ (ok /\ call = "InitialBurner"))
    BY DEF LastId
<1>4. /\ UNCHANGED <<mode, next, pram>> /\ BridgeTypeOK'
      /\ pc' \in {"idle", "parameters"}
      /\ isInitFlash' \in BOOLEAN
      /\ isInitFlash' => isInitFlash \/ mode = "burner"
    <2>1. pc' \in {"idle", "parameters"} /\ isInitFlash' \in BOOLEAN
        BY <1>3 DEF GoOn
    <2>2. CASE call = "InitialBurner"
        <3>1. Ask(mode = "burner", ok)
            BY <1>3, <2>2
        <3>2. UNCHANGED <<mode, next, pram>> /\ BridgeTypeOK' /\ (ok => mode = "burner")
            BY <1>2, <3>1, AskFacts
        <3> QED
            BY <1>3, <2>1, <3>2
    <2>3. CASE call # "InitialBurner"
        <3>1. Ask(IdAnswered, ok)
            BY <1>3, <2>3
        <3>2. UNCHANGED <<mode, next, pram>> /\ BridgeTypeOK'
            BY <1>2, <3>1, AskFacts
        <3>3. isInitFlash' => isInitFlash
            BY <1>3, <2>3
        <3> QED
            BY <2>1, <3>2, <3>3
    <2> QED
        BY <2>2, <2>3
<1> QED
    BY <1>1, <1>2, <1>3, <1>4, BetweenLoads, CallFrame DEF Resetting, Returned

LEMMA ParametersStep ==
    ASSUME SessionInv, Parameters
    PROVE  SessionInv'
<1>1. /\ pc = "parameters" /\ pc' = "idle"
      /\ UNCHANGED <<call, isPowerOff, sql, lpc, loop, retry, seg, fw>>
    BY DEF Parameters, loader, counters
<1>2. Returned /\ BridgeTypeOK
    BY <1>1, BetweenLoads
<1>3. PICK ok \in BOOLEAN :
          Ask(IdAnswered /\ mode = "burner", ok) /\ isInitFlash' = (isInitFlash \/ ok)
    BY DEF Parameters
<1>4. /\ UNCHANGED <<mode, next, pram>> /\ BridgeTypeOK'
      /\ isInitFlash' \in BOOLEAN
      /\ isInitFlash' => isInitFlash \/ mode = "burner"
    <2>1. /\ UNCHANGED <<mode, next, pram>> /\ BridgeTypeOK'
          /\ ok => mode = "burner"
        BY <1>2, <1>3, AskFacts
    <2>2. isInitFlash' \in BOOLEAN
        BY <1>3
    <2> QED
        BY <1>3, <2>1, <2>2
<1> QED
    BY <1>1, <1>2, <1>3, <1>4, BetweenLoads, CallFrame DEF Resetting, Returned

\* The drive is switched off and on only while it counts as off.
LEMMA ResetOffStep ==
    ASSUME SessionInv, ResetOff
    PROVE  SessionInv'
<1>1. /\ pc = "power off"
      /\ UNCHANGED <<call, isPowerOff, isInitFlash, sql, lpc, loop, retry, seg, fw>>
    BY DEF ResetOff, flags, loader, counters
<1>2. Returned /\ BridgeTypeOK /\ isPowerOff
    BY <1>1, BetweenLoads DEF Resetting
<1>3. PICK ret \in BOOLEAN : PowerOff(ret) /\ GoOn(ret, "i2c power")
    BY DEF ResetOff
<1>4. /\ mode' \in {mode, "off"} /\ next' \in {next, "none"} /\ BridgeTypeOK'
      /\ pc' \in {"idle", "i2c power"}
    BY <1>2, <1>3, PowerOffFacts DEF GoOn
<1>5. TypeOK'
    BY <1>1, <1>4 DEF SessionInv, TypeOK, LoaderTypeOK
<1>6. /\ fw = "null" /\ lpc = "false" /\ ~isInitFlash
      /\ mode # "burner" /\ next # "burner"
    BY <1>2 DEF SessionInv, PowerOk
<1>7. PowerOk'
    BY <1>1, <1>2, <1>4, <1>6 DEF PowerOk, Resetting, Returned
<1>8. ControllerOk'
    BY <1>1, <1>4, <1>6 DEF SessionInv, ControllerOk
<1>9. JumpOk' /\ LoadOk'
    BY <1>1, <1>6 DEF JumpOk, LoadOk
<1> QED
    BY <1>5, <1>7, <1>8, <1>9 DEF SessionInv

LEMMA ResetOnStep ==
    ASSUME SessionInv, ResetOn
    PROVE  SessionInv'
<1>1. /\ pc = "power on"
      /\ UNCHANGED <<call, isInitFlash, sql, lpc, loop, retry, seg, fw>>
    BY DEF ResetOn, loader, counters
<1>2. Returned /\ BridgeTypeOK /\ isPowerOff
    BY <1>1, BetweenLoads DEF Resetting
<1>3. PICK ret \in BOOLEAN :
          PowerOn(ret) /\ GoOn(ret, "identify") /\ isPowerOff' = (isPowerOff /\ ~ret)
    BY DEF ResetOn
<1>4. /\ mode' = mode /\ next' \in {next, "firmware", "rom"} /\ BridgeTypeOK'
    BY <1>2, <1>3, PowerOnFacts
<1>5. /\ isPowerOff' \in BOOLEAN
      /\ pc' = IF isPowerOff' THEN "idle" ELSE "identify"
    BY <1>2, <1>3 DEF GoOn
<1>6. TypeOK'
    <2>1. {isPowerOff', isInitFlash', sql'} \subseteq BOOLEAN
        BY <1>1, <1>5 DEF SessionInv, TypeOK
    <2>2. LoaderTypeOK'
        BY <1>1 DEF SessionInv, TypeOK, LoaderTypeOK
    <2> QED
        BY <1>1, <1>4, <1>5, <2>1, <2>2 DEF SessionInv, TypeOK
<1>7. /\ fw = "null" /\ lpc = "false" /\ ~isInitFlash
      /\ mode # "burner" /\ next # "burner"
    BY <1>2 DEF SessionInv, PowerOk
<1>8. PowerOk'
    BY <1>1, <1>4, <1>5, <1>7 DEF PowerOk, Resetting, Returned
<1>9. ControllerOk'
    BY <1>1, <1>4, <1>7 DEF SessionInv, ControllerOk
<1>10. JumpOk' /\ LoadOk'
    BY <1>1, <1>7 DEF JumpOk, LoadOk
<1> QED
    BY <1>6, <1>8, <1>9, <1>10 DEF SessionInv

\* The program ends while the controller waits in its boot ROM, so a session that
\* starts again meets no burner.
LEMMA RestartStep ==
    ASSUME SessionInv, Restart
    PROVE  SessionInv'
<1>1. /\ lpc = "aborted" /\ lpc' = "false" /\ fw' = "null"
      /\ pc' = "idle" /\ isPowerOff' = TRUE /\ isInitFlash' = FALSE /\ sql' = FALSE
      /\ UNCHANGED <<mode, next, pram, outputs, rail, faults, unheard, loop, retry, seg, call>>
    BY DEF Restart, Aborted, bridgeVars, controller, tester, counters
<1>2. mode = "rom" /\ next = "none"
    BY <1>1 DEF SessionInv, LoadOk
<1>3. TypeOK'
    <2>1. BridgeTypeOK' /\ LoaderTypeOK'
        BY <1>1 DEF SessionInv, TypeOK, BridgeTypeOK, LoaderTypeOK
    <2> QED
        BY <1>1, <2>1 DEF SessionInv, TypeOK
<1>4. PowerOk' /\ ControllerOk' /\ JumpOk' /\ LoadOk'
    BY <1>1, <1>2 DEF PowerOk, ControllerOk, JumpOk, LoadOk, Returned
<1> QED
    BY <1>3, <1>4 DEF SessionInv

\* What the controller was starting runs.
LEMMA ArriveStep ==
    ASSUME SessionInv, Arrive, UNCHANGED <<loader, session>>
    PROVE  SessionInv'
<1>1. /\ next # "none" /\ mode' = next /\ next' = "none"
      /\ UNCHANGED <<pram, outputs, rail, faults, unheard, lpc, loop, retry, seg, fw,
                     pc, call, isPowerOff, isInitFlash, sql>>
    BY DEF Arrive, tester, loader, counters, session, flags
<1>2. BridgeTypeOK'
    BY <1>1 DEF SessionInv, TypeOK, BridgeTypeOK, Modes
<1>3. TypeOK'
    BY <1>1, <1>2 DEF SessionInv, TypeOK, LoaderTypeOK
<1>4. PowerOk'
    BY <1>1 DEF SessionInv, PowerOk, Returned
<1>5. ControllerOk'
    BY <1>1 DEF SessionInv, ControllerOk
<1>6. JumpOk'
    BY <1>1 DEF SessionInv, JumpOk
<1>7. LoadOk'
    BY <1>1 DEF SessionInv, LoadOk
<1> QED
    BY <1>3, <1>4, <1>5, <1>6, <1>7 DEF SessionInv

LEMMA SessionStutter ==
    ASSUME SessionInv, UNCHANGED vars
    PROVE  SessionInv'
<1>1. UNCHANGED <<mode, next, pram, outputs, rail, faults, unheard, lpc, loop, retry, seg,
                  fw, pc, call, isPowerOff, isInitFlash, sql>>
    BY DEF vars, bridgeVars, controller, tester, loader, counters, session, flags
<1>2. TypeOK'
    BY <1>1 DEF SessionInv, TypeOK, BridgeTypeOK, LoaderTypeOK
<1>3. PowerOk' /\ ControllerOk' /\ JumpOk'
    BY <1>1 DEF SessionInv, PowerOk, ControllerOk, JumpOk, Returned
<1>4. LoadOk'
    BY <1>1 DEF SessionInv, LoadOk, Placed
<1> QED
    BY <1>2, <1>3, <1>4 DEF SessionInv

LEMMA SessionStep == SessionInv /\ [Next]_vars => SessionInv'
<1> SUFFICES ASSUME SessionInv, [Next]_vars PROVE SessionInv'
    OBVIOUS
<1>1. CASE InitPhyDrive
    BY <1>1, InitPhyDriveStep
<1>2. CASE \E c \in Calls : Load(c)
    BY <1>2, LoadStep
<1>3. CASE SetFlashID
    BY <1>3, SetFlashIDStep
<1>4. CASE EndDLL
    BY <1>4, EndDLLStep
<1>5. CASE Work
    BY <1>5, DetectStep, ResetInquiryStep, ResetI2cStep, ResetOffStep, ResetSwitchStep,
       ResetOnStep, NewDriveStep, FirstIdStep, InitDriveStep, InitDriveDoneStep,
       FwVersionStep, InitAgainDoneStep, FwVersionAgainStep, LastIdStep, ParametersStep
    DEF Work
<1>6. CASE Arrive /\ UNCHANGED <<loader, session>>
    BY <1>6, ArriveStep
<1>7. CASE Restart
    BY <1>7, RestartStep
<1>8. CASE UNCHANGED vars
    BY <1>8, SessionStutter
<1> QED
    BY <1>1, <1>2, <1>3, <1>4, <1>5, <1>6, <1>7, <1>8 DEF Next

LEMMA SessionInvariant == Spec => []SessionInv
BY SessionInit, SessionStep, PTL DEF Spec

-----------------------------------------------------------------------------
\* Every variable of the session keeps its type.
THEOREM SessionTypeOK == Spec => []TypeOK
<1>1. SessionInv => TypeOK
    BY DEF SessionInv
<1> QED
    BY <1>1, SessionInvariant, PTL

\* A load that returned true, and with it an initialised flash, means that the
\* controller runs the burner (LoadBurner, InitialFlash, CheckDLLFuncInit).
THEOREM SessionLoadedMeansBurner == Spec => []LoadedMeansBurner
<1>1. SessionInv => LoadedMeansBurner
    BY DEF SessionInv, ControllerOk, LoadedMeansBurner
<1> QED
    BY <1>1, SessionInvariant, PTL

\* Dev_InitDrive starts a whole image or none.
THEOREM SessionStartsWholeImage == Spec => []StartsWholeImage
<1>1. SessionInv => StartsWholeImage
    BY DEF SessionInv, ControllerOk, StartsWholeImage
<1> QED
    BY <1>1, SessionInvariant, PTL

-----------------------------------------------------------------------------
\* What a step may do to the controller: the two action properties.

ControllerStep ==
    /\ pram' # pram /\ pram' # NoImage => mode = "rom" /\ next = "none"
    /\ mode = "burner" => mode' = "burner" /\ next' = "none"

\* Steps that leave it alone.
LEMMA QuietSteps ==
    ASSUME SessionInv,
           \/ InitPhyDrive \/ (\E c \in Calls : Load(c)) \/ SetFlashID \/ EndDLL
           \/ Detect \/ ResetInquiry \/ ResetI2c \/ ResetSwitch \/ NewDrive
           \/ FirstId \/ InitDriveDone \/ FwVersion \/ InitAgainDone
           \/ FwVersionAgain \/ LastId \/ Parameters
           \/ Probe \/ ProbeAgain \/ JumpBack \/ Key \/ Look \/ Check \/ Settle
           \/ Restart \/ UNCHANGED vars
    PROVE  UNCHANGED <<mode, next, pram>>
<1>1. BridgeTypeOK
    BY DEF SessionInv, TypeOK
<1>2. CASE InitPhyDrive \/ (\E c \in Calls : Load(c)) \/ EndDLL
           \/ NewDrive \/ InitDriveDone \/ InitAgainDone \/ Key \/ Restart
           \/ UNCHANGED vars
    BY <1>2 DEF InitPhyDrive, Load, EndDLL, NewDrive, InitDriveDone, InitAgainDone, Key,
                Restart, vars, bridgeVars, controller
<1>3. CASE SetFlashID \/ FirstId \/ LastId \/ Parameters
    BY <1>3 DEF SetFlashID, FirstId, LastId, Parameters, Ask, controller
<1>4. CASE Detect \/ ResetInquiry \/ ResetI2c \/ ResetSwitch
    BY <1>4 DEF Detect, ResetInquiry, ResetI2c, ResetSwitch, Inquiry, I2cInit, I2cPower,
                controller
<1>5. CASE FwVersion \/ FwVersionAgain
           \/ Probe \/ ProbeAgain \/ JumpBack \/ Look \/ Check \/ Settle
    BY <1>5 DEF FwVersion, FwVersionAgain, Probe, ProbeAgain, JumpBack, Look, Check,
                Settle, Identify, controller
<1> QED
    BY <1>2, <1>3, <1>4, <1>5

LEMMA ControllerSteps == SessionInv /\ [Next]_vars => ControllerStep
<1> SUFFICES ASSUME SessionInv, [Next]_vars PROVE ControllerStep
    OBVIOUS
<1> USE DEF ControllerStep
<1>1. mode = "burner" => next = "none"
    BY DEF SessionInv, ControllerOk
<1>2. CASE UNCHANGED <<mode, next, pram>>
    BY <1>1, <1>2
<1>3. CASE ResetOff \/ ResetOn
    <2>1. isPowerOff /\ BridgeTypeOK
        BY <1>3 DEF SessionInv, TypeOK, PowerOk, Resetting, ResetOff, ResetOn
    <2>2. mode # "burner"
        BY <2>1 DEF SessionInv, PowerOk
    <2>3. pram' \in {pram, NoImage}
        BY <1>3 DEF ResetOff, ResetOn, PowerOff, PowerOn, StartsUp, controller
    <2> QED
        BY <2>2, <2>3
<1>4. CASE ForceToBootRom
    <2>1. mode \in {"firmware", "rom"}
        BY <1>4 DEF ForceToBootRom, SessionInv, JumpOk
    <2>2. pram' \in {pram, NoImage}
        BY <1>4 DEF ForceToBootRom, StartsUp, controller
    <2> QED
        BY <2>1, <2>2
<1>5. CASE Segment \/ Start
    <2>1. mode = "rom" /\ next = "none"
        BY <1>5 DEF Segment, Start, SessionInv, LoadOk
    <2> QED
        BY <2>1
<1>6. CASE Arrive
    BY <1>1, <1>6 DEF Arrive
<1> QED
    BY <1>2, <1>3, <1>4, <1>5, <1>6, QuietSteps DEF Next, Work, InitDrive, LoaderStep

\* The image is programmed only into a controller that waits in its boot ROM.
THEOREM SessionProgramsInRom == Spec => ProgramsInRom
<1>1. SessionInv /\ [Next]_vars
      => [pram' # pram /\ pram' # NoImage => mode = "rom" /\ next = "none"]_vars
    BY ControllerSteps DEF ControllerStep
<1> QED
    BY <1>1, SessionInvariant, PTL DEF Spec, ProgramsInRom

\* Neither calling InitPhyDrive again nor loading again stops a burner.
THEOREM SessionBurnerStays == Spec => BurnerStays
<1>1. SessionInv /\ [Next]_vars
      => [mode = "burner" => mode' = "burner" /\ next' = "none"]_vars
    BY ControllerSteps DEF ControllerStep
<1> QED
    BY <1>1, SessionInvariant, PTL DEF Spec, BurnerStays
=============================================================================
