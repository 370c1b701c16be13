-------------------------- MODULE ProtocolProofs ---------------------------
(***************************************************************************)
(* What the outside sees of the protocols.  Clients: the sessions of a      *)
(* participant (SignalSession), for any number of them and of callers of    *)
(* end_participant, and the texts of times and durations (WktSerde): the    *)
(* calendar of wkt_serde.rs is the Gregorian calendar on every day, and the *)
(* texts lose nothing, whatever the value.  Telephones: what becomes of a   *)
(* call (SipService), for any trunks, rules and calls of the SIP API, which *)
(* needs what the two matching loops (SipMatch) compute for any number of   *)
(* trunks and rules.                                                        *)
(***************************************************************************)
EXTENDS SignalSession, WktSerde, SipService, FiniteSetTheorems, TLAPS

-----------------------------------------------------------------------------
(* Sessions *)

\* A participant that is Disconnected and still in the room is being removed:
\* this is why a session that ends may do without a grace task then.
DisconnectedIsLeaving ==
    present /\ disconnected =>
        \/ \E e \in Enders : endPc[e] = "remove"
        \/ closePc \in {"notify", "clear"}

\* The inductive invariant.
IInv == TypeOK /\ DisconnectedIsLeaving /\ NeverOrphaned

-----------------------------------------------------------------------------

\* The types of the sessions' state are preserved by every step.
THEOREM TypeCorrect == Spec => []TypeOK
<1>1. Init => TypeOK
  <2> SUFFICES ASSUME Init PROVE TypeOK
    OBVIOUS
  <2> USE DEF Init, Enders
  <2>1. session \in [Sessions -> SessionPcs]
    BY Zenon DEF SessionPcs
  <2>2. endPc \in [Enders -> EndPcs]
    BY Zenon DEF EndPcs
  <2>3. \A s \in Sessions : endPc[s] = "idle"
    OBVIOUS
  <2>4. present \in BOOLEAN /\ disconnected \in BOOLEAN
    BY Zenon
  <2>5. /\ born \in [Sessions -> Nat] /\ graceGen \in [Sessions -> Nat]
        /\ \A s \in Sessions : born[s] <= resumeGen /\ graceGen[s] <= resumeGen
    OBVIOUS
  <2>6. /\ resumeGen \in Nat
        /\ sink \in Sessions \cup {NoSession}
        /\ closePc \in ClosePcs
        /\ leaveSent \in SUBSET Sessions
    BY Zenon DEF ClosePcs
  <2> QED
    BY Zenon, <2>1, <2>2, <2>3, <2>4, <2>5, <2>6 DEF TypeOK
<1>2. TypeOK /\ [Next]_vars => TypeOK'
  <2> SUFFICES ASSUME TypeOK, [Next]_vars PROVE TypeOK'
    OBVIOUS
  <2> USE SessionAssumption DEF TypeOK, Enders, SessionPcs, EndPcs, ClosePcs
  <2>1. ASSUME NEW s \in Sessions, FindParticipant(s) PROVE TypeOK'
    BY Zenon, <2>1 DEF FindParticipant, participantVars
  <2>2. ASSUME NEW s \in Sessions, CheckResumable(s) PROVE TypeOK'
    BY Zenon, <2>2 DEF CheckResumable, participantVars
  <2>3. ASSUME NEW s \in Sessions, Resume(s) PROVE TypeOK'
    BY <2>3 DEF Resume
  <2>4. ASSUME NEW s \in Sessions, SetSignalSink(s) PROVE TypeOK'
    BY Zenon, <2>4 DEF SetSignalSink
  <2>5. ASSUME NEW s \in Sessions, EndSession(s) PROVE TypeOK'
    BY <2>5 DEF EndSession, participantVars
  <2>6. ASSUME NEW s \in Sessions, Wake(s) PROVE TypeOK'
    BY Zenon, <2>6 DEF Wake, sessionVars, participantVars
  <2>7. ASSUME NEW e \in Removers, CallEndParticipant(e) PROVE TypeOK'
    BY Zenon, <2>7 DEF CallEndParticipant, sessionVars, participantVars
  <2>8. ASSUME NEW e \in Enders, CheckRemoved(e) PROVE TypeOK'
    BY Zenon, <2>8 DEF CheckRemoved, sessionVars
  <2>9. ASSUME NEW e \in Enders, RemoveFromRoom(e) PROVE TypeOK'
    BY Zenon, <2>9 DEF RemoveFromRoom, sessionVars
  <2>10. CASE CloseDisconnects
    BY Zenon, <2>10 DEF CloseDisconnects, sessionVars
  <2>11. CASE CloseNotifies
    BY Zenon, <2>11 DEF CloseNotifies, sessionVars, participantVars
  <2>12. CASE CloseClears
    BY Zenon, <2>12 DEF CloseClears, sessionVars
  <2>13. CASE UNCHANGED vars
    BY Zenon, <2>13 DEF vars, sessionVars, participantVars
  <2> QED
    BY Zenon, <2>1, <2>2, <2>3, <2>4, <2>5, <2>6, <2>7, <2>8, <2>9, <2>10, <2>11,
       <2>12, <2>13 DEF Next, Teardown, CloseRoom
<1> QED
  BY <1>1, <1>2, PTL DEF Spec

-----------------------------------------------------------------------------

\* No step leaves a participant in the room with nobody to remove it.  The
\* step that could is EndSession: either the participant is Disconnected, and
\* DisconnectedIsLeaving names who removes it, or the grace task is spawned
\* with the current resume_gen and will not skip unless a session resumes.
LEMMA OrphanStep ==
  IInv /\ TypeOK' /\ [Next]_vars => DisconnectedIsLeaving' /\ NeverOrphaned'
<1> SUFFICES ASSUME IInv, TypeOK', [Next]_vars
             PROVE  DisconnectedIsLeaving' /\ NeverOrphaned'
  OBVIOUS
<1> USE SessionAssumption DEF IInv, TypeOK, DisconnectedIsLeaving,
        NeverOrphaned, Live, Enders
<1>1. ASSUME NEW s \in Sessions, FindParticipant(s)
      PROVE  DisconnectedIsLeaving' /\ NeverOrphaned'
  BY Zenon, <1>1 DEF FindParticipant, participantVars
<1>2. ASSUME NEW s \in Sessions, CheckResumable(s)
      PROVE  DisconnectedIsLeaving' /\ NeverOrphaned'
  BY Zenon, <1>2 DEF CheckResumable, participantVars
<1>3. ASSUME NEW s \in Sessions, Resume(s)
      PROVE  DisconnectedIsLeaving' /\ NeverOrphaned'
  BY Zenon, <1>3 DEF Resume
<1>4. ASSUME NEW s \in Sessions, SetSignalSink(s)
      PROVE  DisconnectedIsLeaving' /\ NeverOrphaned'
  BY Zenon, <1>4 DEF SetSignalSink
<1>5. ASSUME NEW s \in Sessions, EndSession(s)
      PROVE  DisconnectedIsLeaving' /\ NeverOrphaned'
  <2>1. CASE disconnected
    BY Zenon, <1>5, <2>1 DEF EndSession, participantVars
  <2>2. CASE ~disconnected
    BY <1>5, <2>2 DEF EndSession, participantVars
  <2> QED
    BY Zenon, <2>1, <2>2
<1>6. ASSUME NEW s \in Sessions, Wake(s)
      PROVE  DisconnectedIsLeaving' /\ NeverOrphaned'
  BY Zenon, <1>6 DEF Wake, sessionVars, participantVars
<1>7. ASSUME NEW e \in Removers, CallEndParticipant(e)
      PROVE  DisconnectedIsLeaving' /\ NeverOrphaned'
  BY Zenon, <1>7 DEF CallEndParticipant, sessionVars, participantVars
<1>8. ASSUME NEW e \in Enders, CheckRemoved(e)
      PROVE  DisconnectedIsLeaving' /\ NeverOrphaned'
  BY Zenon, <1>8 DEF CheckRemoved, sessionVars
<1>9. ASSUME NEW e \in Enders, RemoveFromRoom(e)
      PROVE  DisconnectedIsLeaving' /\ NeverOrphaned'
  BY Zenon, <1>9 DEF RemoveFromRoom, sessionVars
<1>10. CASE CloseDisconnects
  BY Zenon, <1>10 DEF CloseDisconnects, sessionVars
<1>11. CASE CloseNotifies
  BY Zenon, <1>11 DEF CloseNotifies, sessionVars, participantVars
<1>12. CASE CloseClears
  BY Zenon, <1>12 DEF CloseClears, sessionVars
<1>13. CASE UNCHANGED vars
  BY Zenon, <1>13 DEF vars, sessionVars, participantVars
<1> QED
  BY Zenon, <1>1, <1>2, <1>3, <1>4, <1>5, <1>6, <1>7, <1>8, <1>9, <1>10, <1>11,
     <1>12, <1>13 DEF Next, Teardown, CloseRoom

\* Whatever the number of sessions and callers, and however reconnects, ends
\* of sessions and grace tasks interleave, a participant without a live
\* session is never left in its room with nobody on the way to remove it.
THEOREM NobodyOrphaned == Spec => []NeverOrphaned
<1>1. Init => DisconnectedIsLeaving /\ NeverOrphaned
  BY Zenon, SessionAssumption DEF Init, DisconnectedIsLeaving, NeverOrphaned, Live,
     SessionAssumption
<1>2. TypeOK /\ TypeOK' /\ DisconnectedIsLeaving /\ NeverOrphaned /\ [Next]_vars
        => DisconnectedIsLeaving' /\ NeverOrphaned'
  BY Zenon, OrphanStep DEF IInv
<1> QED
  BY <1>1, <1>2, TypeCorrect, PTL DEF Spec


-----------------------------------------------------------------------------
(* The year of a day of an era *)

\* Every day of an era is a day of the year YearOfEra says.  (b, c and e stand
\* for the quotients, known by their bounds only: the arithmetic is linear.)
LEMMA DayHasYear ==
    ASSUME NEW doe \in Int, 0 <= doe, doe <= 146096
    PROVE  /\ YearOfEra(doe) \in Int
           /\ 0 <= YearOfEra(doe) /\ YearOfEra(doe) <= 399
           /\ doe - DaysBefore(YearOfEra(doe)) \in Int
           /\ 0 <= doe - DaysBefore(YearOfEra(doe))
           /\ doe - DaysBefore(YearOfEra(doe)) <= 365
<1> DEFINE b == doe \div 1460
           c == doe \div 36524
           e == doe \div 146096
           yoe == (doe - b + c - e) \div 365
           q == yoe \div 4
           h == yoe \div 100
<1>1. /\ b \in Int /\ b * 1460 <= doe /\ doe < b * 1460 + 1460
      /\ c \in Int /\ c * 36524 <= doe /\ doe < c * 36524 + 36524
      /\ e \in Int /\ e * 146096 <= doe /\ doe < e * 146096 + 146096
  BY SMT
<1>2. YearOfEra(doe) = yoe /\ DaysBefore(yoe) = yoe * 365 + q - h
  BY DEF YearOfEra, DaysBefore
<1> HIDE DEF b, c, e
<1>3. /\ yoe \in Int
      /\ yoe * 365 <= doe - b + c - e /\ doe - b + c - e < yoe * 365 + 365
  BY <1>1, SMT
<1> HIDE DEF yoe
<1>4. /\ q \in Int /\ 4 * q <= yoe /\ yoe < 4 * q + 4
      /\ h \in Int /\ 100 * h <= yoe /\ yoe < 100 * h + 100
  BY <1>3, SMT
<1> HIDE DEF q, h
<1>5. c \in 0 .. 4 /\ e \in {0, 1} /\ (c = 4 => e = 1) /\ 0 <= b /\ b <= 100
  BY <1>1, SMT
<1>6. 0 <= yoe /\ yoe <= 399
  BY <1>1, <1>3, <1>5, SMT
<1>7. h \in 0 .. 3
  BY <1>3, <1>4, <1>6, SMT
<1>8. 0 <= doe - (yoe * 365 + q - h) /\ doe - (yoe * 365 + q - h) <= 365
  <2>1. CASE e = 1
    BY <1>1, <1>3, <1>4, <1>5, <1>6, <1>7, <2>1, SMT
  <2>2. CASE e = 0 /\ c = h
    BY <1>1, <1>3, <1>4, <1>5, <1>6, <1>7, <2>2, SMT
  <2>3. CASE e = 0 /\ c # h
    BY <1>1, <1>3, <1>4, <1>5, <1>6, <1>7, <2>3, SMT
  <2>4. QED
    BY <1>5, <2>1, <2>2, <2>3
<1>9. QED
  BY <1>2, <1>3, <1>4, <1>6, <1>8

\* The last day of a year exists in leap years only.
LEMMA YearFromDay ==
    ASSUME NEW yoe \in Int, 0 <= yoe, yoe <= 399,
           NEW doy \in Int, 0 <= doy, doy <= 365,
           doy = 365 => LeapYear(yoe + 1)
    PROVE  /\ DaysBefore(yoe) + doy \in Int
           /\ 0 <= DaysBefore(yoe) + doy /\ DaysBefore(yoe) + doy <= 146096
           /\ YearOfEra(DaysBefore(yoe) + doy) = yoe
<1> DEFINE q == yoe \div 4
           h == yoe \div 100
           doe == DaysBefore(yoe) + doy
           b == doe \div 1460
           c == doe \div 36524
           e == doe \div 146096
           n == (doe - b + c - e) \div 365
<1>1. /\ q \in Int /\ 4 * q <= yoe /\ yoe < 4 * q + 4
      /\ h \in Int /\ 100 * h <= yoe /\ yoe < 100 * h + 100
  BY SMT
<1>2. doy = 365 => yoe = 4 * q + 3 /\ (yoe # 100 * h + 99 \/ yoe = 399)
  BY <1>1, SMT DEF LeapYear
<1>3. doe = yoe * 365 + q - h + doy
  BY DEF DaysBefore
<1> HIDE DEF q, h, doe
<1>4. h \in 0 .. 3 /\ 0 <= q /\ q <= 99
  BY <1>1, SMT
<1>5. doe \in Int /\ 0 <= doe /\ doe <= 146096
  BY <1>1, <1>2, <1>3, <1>4, SMT
<1>6. /\ b \in Int /\ b * 1460 <= doe /\ doe < b * 1460 + 1460
      /\ c \in Int /\ c * 36524 <= doe /\ doe < c * 36524 + 36524
      /\ e \in Int /\ e * 146096 <= doe /\ doe < e * 146096 + 146096
  BY <1>5, SMT
<1> HIDE DEF b, c, e
<1>7. c \in 0 .. 4 /\ e \in {0, 1} /\ (c = 4 => e = 1) /\ 0 <= b /\ b <= 100
  BY <1>5, <1>6, SMT
<1>8. yoe * 365 <= doe - b + c - e /\ doe - b + c - e < yoe * 365 + 365
  <2>1. CASE e = 1
    BY <1>1, <1>2, <1>3, <1>4, <1>5, <1>6, <1>7, <2>1, SMT
  <2>2. CASE e = 0 /\ c = h
    BY <1>1, <1>2, <1>3, <1>4, <1>5, <1>6, <1>7, <2>2, SMT
  <2>3. CASE e = 0 /\ c # h
    BY <1>1, <1>2, <1>3, <1>4, <1>5, <1>6, <1>7, <2>3, SMT
  <2>4. QED
    BY <1>7, <2>1, <2>2, <2>3
<1>9. n = yoe
  BY <1>5, <1>6, <1>8, SMT
<1>10. YearOfEra(doe) = n
  BY DEF YearOfEra, b, c, e
<1>11. QED
  BY <1>5, <1>9, <1>10 DEF doe

-----------------------------------------------------------------------------
(* Days and dates *)

\* div_euclid splits a year into its era and the year of the era.
LEMMA EraOfYear ==
    ASSUME NEW era \in Int, NEW yoe \in Int, 0 <= yoe, yoe <= 399
    PROVE  /\ (yoe + era * 400) \div 400 = era
           /\ (yoe + era * 400) - era * 400 = yoe
  BY SMT

\* The date of a day of a year lies in that year, and on that day of it.
LEMMA DateOfDay ==
    ASSUME NEW y \in Int, NEW doy \in Int, 0 <= doy, doy <= 365
    PROVE  LET x == CivilDate(y, doy)
           IN /\ x.year \in Int /\ x.month \in 1 .. 12 /\ x.day \in Int
              /\ MarchYear(x.year, x.month) = y
              /\ DayOfYear(x.month, x.day) = doy
<1> DEFINE mp == (5 * doy + 2) \div 153
           start == (153 * mp + 2) \div 5
           m == IF mp < 10 THEN mp + 3 ELSE mp - 9
           year == IF mp < 10 THEN y ELSE y + 1
<1>1. mp \in 0 .. 11
  BY SMT
<1> HIDE DEF mp
<1>2. start \in Int
  BY <1>1, SMT
<1>3. /\ m \in 1 .. 12 /\ (m + 9) % 12 = mp
      /\ year \in Int /\ (IF m <= 2 THEN year - 1 ELSE year) = y
  BY <1>1, SMT
<1>4. CivilDate(y, doy) = [year |-> year, month |-> m, day |-> doy - start + 1]
  BY DEF CivilDate, mp
<1> HIDE DEF m, year
<1>5. DayOfYear(m, doy - start + 1) = start + (doy - start + 1) - 1
  BY <1>3 DEF DayOfYear
<1> HIDE DEF start
<1>6. start + (doy - start + 1) - 1 = doy /\ doy - start + 1 \in Int
  BY <1>2, SMT
<1>7. QED
  BY <1>3, <1>4, <1>5, <1>6 DEF MarchYear

\* civil_from_days gives a date, and days_from_civil the day back.
LEMMA DayKept ==
    ASSUME NEW days \in Int
    PROVE  LET x == civil_from_days(days)
           IN /\ x.year \in Int /\ x.month \in 1 .. 12 /\ x.day \in Int
              /\ days_from_civil(x.year, x.month, x.day) = days
<1> DEFINE era == (days + 719468) \div 146097
           doe == days + 719468 - era * 146097
           yoe == YearOfEra(doe)
           doy == doe - DaysBefore(yoe)
           x == CivilDate(yoe + era * 400, doy)
<1>1. era \in Int /\ doe \in Int /\ 0 <= doe /\ doe <= 146096
  BY SMT
<1>2. civil_from_days(days) = x
  BY DEF civil_from_days
<1>3. era * 146097 + doe - 719468 = days
  BY <1>1, SMT
<1> HIDE DEF era, doe
<1>4. /\ yoe \in Int /\ 0 <= yoe /\ yoe <= 399
      /\ doy \in Int /\ 0 <= doy /\ doy <= 365
  BY <1>1, DayHasYear
<1>5. DaysBefore(yoe) \in Int
  <2> HIDE DEF yoe
  <2>1. QED
    BY <1>4, SMT DEF DaysBefore
<1>6. DaysBefore(yoe) + doy = doe
  BY <1>1, <1>5
<1> HIDE DEF yoe, doy
<1>7. yoe + era * 400 \in Int
  BY <1>1, <1>4
<1>8. /\ x.year \in Int /\ x.month \in 1 .. 12 /\ x.day \in Int
      /\ MarchYear(x.year, x.month) = yoe + era * 400
      /\ DayOfYear(x.month, x.day) = doy
  BY <1>4, <1>7, DateOfDay
<1> HIDE DEF x
<1>9. days_from_civil(x.year, x.month, x.day)
        = era * 146097 + DaysBefore(yoe) + doy - 719468
  <2>1. /\ (yoe + era * 400) \div 400 = era
        /\ (yoe + era * 400) - era * 400 = yoe
    BY <1>1, <1>4, EraOfYear
  <2>2. QED
    BY <1>1, <1>4, <1>5, <1>8, <2>1, SMT DEF days_from_civil
<1>10. era * 146097 + DaysBefore(yoe) + doy - 719468 = days
  BY <1>1, <1>3, <1>4, <1>5, <1>6, SMT
<1>11. QED
  BY <1>2, <1>8, <1>9, <1>10

-----------------------------------------------------------------------------
(* The Gregorian calendar *)

\* The dates of the calendar.
IsDate(x) ==
    /\ x \in [year : Int, month : Int, day : Int]
    /\ 1 <= x.month /\ x.month <= 12
    /\ 1 <= x.day /\ x.day <= MonthLength(x.year, x.month)

\* A date is a day of its year, the last one in leap years only, and CivilDate
\* gives the date back.
LEMMA DateInYear ==
    ASSUME NEW y \in Int, NEW m \in 1 .. 12, NEW d \in Int,
           1 <= d, d <= MonthLength(y, m)
    PROVE  /\ DayOfYear(m, d) \in Int
           /\ 0 <= DayOfYear(m, d) /\ DayOfYear(m, d) <= 365
           /\ DayOfYear(m, d) = 365 => LeapYear(MarchYear(y, m) + 1)
           /\ CivilDate(MarchYear(y, m), DayOfYear(m, d))
                = [year |-> y, month |-> m, day |-> d]
<1> DEFINE leap == LeapYear(y)
<1>1. MonthLength(y, m) = IF m = 2 THEN IF leap THEN 29 ELSE 28
                          ELSE IF m \in {4, 6, 9, 11} THEN 30 ELSE 31
  BY DEF MonthLength
<1>2. m = 2 => MarchYear(y, m) + 1 = y
  BY SMT DEF MarchYear
<1> HIDE DEF leap
<1>3. /\ DayOfYear(m, d) \in Int
      /\ 0 <= DayOfYear(m, d) /\ DayOfYear(m, d) <= 365
      /\ DayOfYear(m, d) = 365 => m = 2 /\ leap
  BY <1>1, SMT DEF DayOfYear
<1> DEFINE mp == (m + 9) % 12
           start == (153 * mp + 2) \div 5
<1>4. (5 * (start + d - 1) + 2) \div 153 = mp /\ start \in Int
  BY <1>1, SMT
<1>5. /\ (IF mp < 10 THEN mp + 3 ELSE mp - 9) = m
      /\ (IF mp < 10 THEN MarchYear(y, m) ELSE MarchYear(y, m) + 1) = y
  BY SMT DEF MarchYear
<1>6. DayOfYear(m, d) = start + d - 1
  BY DEF DayOfYear
<1> HIDE DEF mp
<1>7. CivilDate(MarchYear(y, m), start + d - 1)
        = [year |-> y, month |-> m, day |-> (start + d - 1) - start + 1]
  BY <1>4, <1>5, SMT DEF CivilDate
<1> HIDE DEF start
<1>8. (start + d - 1) - start + 1 = d
  BY <1>4, SMT
<1>9. QED
  BY <1>2, <1>3, <1>6, <1>7, <1>8, SMT DEF leap

\* The leap years of an era are those of the calendar.
LEMMA LeapInEra ==
    ASSUME NEW era \in Int, NEW yoe \in Int
    PROVE  LeapYear(yoe + era * 400 + 1) <=> LeapYear(yoe + 1)
  BY SMT DEF LeapYear

\* civil_from_days undoes days_from_civil, on every date.
LEMMA DateKept ==
    ASSUME NEW x, IsDate(x)
    PROVE  /\ days_from_civil(x.year, x.month, x.day) \in Int
           /\ civil_from_days(days_from_civil(x.year, x.month, x.day)) = x
<1> DEFINE y == MarchYear(x.year, x.month)
           era == y \div 400
           yoe == y - era * 400
           doy == DayOfYear(x.month, x.day)
           doe == DaysBefore(yoe) + doy
           days == era * 146097 + doe - 719468
<1>1. /\ x.year \in Int /\ x.month \in 1 .. 12 /\ x.day \in Int
      /\ 1 <= x.day /\ x.day <= MonthLength(x.year, x.month)
      /\ x = [year |-> x.year, month |-> x.month, day |-> x.day]
  BY SMT DEF IsDate
<1>2. y \in Int
  BY <1>1, SMT DEF MarchYear
<1>3. /\ doy \in Int /\ 0 <= doy /\ doy <= 365
      /\ doy = 365 => LeapYear(y + 1)
      /\ CivilDate(y, doy) = x
  BY <1>1, DateInYear
<1> HIDE DEF y, doy
<1>4. /\ era \in Int /\ yoe \in Int /\ 0 <= yoe /\ yoe <= 399
      /\ y = yoe + era * 400
  BY <1>2, SMT
<1>5. days_from_civil(x.year, x.month, x.day)
        = era * 146097 + DaysBefore(yoe) + doy - 719468
  BY SMT DEF days_from_civil, y, doy
<1> HIDE DEF era, yoe
<1>6. doy = 365 => LeapYear(yoe + 1)
  BY <1>3, <1>4, LeapInEra
<1>7. /\ doe \in Int /\ 0 <= doe /\ doe <= 146096 /\ YearOfEra(doe) = yoe
  BY <1>3, <1>4, <1>6, YearFromDay
<1>8. DaysBefore(yoe) \in Int
  BY <1>4, SMT DEF DaysBefore
<1>9. days_from_civil(x.year, x.month, x.day) = days /\ doe - DaysBefore(yoe) = doy
  BY <1>3, <1>4, <1>5, <1>8, SMT
<1> HIDE DEF doe
<1>10. /\ days \in Int
       /\ (days + 719468) \div 146097 = era
       /\ days + 719468 - era * 146097 = doe
  BY <1>4, <1>7, SMT
<1> HIDE DEF days
<1>11. civil_from_days(days) = CivilDate(yoe + era * 400, doe - DaysBefore(yoe))
  BY <1>7, <1>10, SMT DEF civil_from_days
<1>12. QED
  BY <1>3, <1>4, <1>9, <1>10, <1>11, SMT

\* The first days of two years that follow one another.
LEMMA NewYearsDay ==
    ASSUME NEW y \in Int
    PROVE  days_from_civil(y, 1, 1)
             = 365 * (y - 1970) + LeapDaysBefore(y) - LeapDaysBefore(1970)
  BY SMT DEF days_from_civil, MarchYear, DaysBefore, DayOfYear, LeapDaysBefore

\* Tomorrow is the next date, and days_from_civil counts one day.
LEMMA OneDayOn ==
    ASSUME NEW x, IsDate(x)
    PROVE  LET t == Tomorrow(x)
           IN /\ IsDate(t)
              /\ days_from_civil(t.year, t.month, t.day)
                   = days_from_civil(x.year, x.month, x.day) + 1
<1> DEFINE y == x.year
           m == x.month
           d == x.day
<1>1. /\ y \in Int /\ m \in 1 .. 12 /\ d \in Int
      /\ 1 <= d /\ d <= MonthLength(y, m)
      /\ x = [year |-> y, month |-> m, day |-> d]
  BY SMT DEF IsDate
<1>2. CASE d < MonthLength(y, m)
  <2>1. Tomorrow(x) = [year |-> y, month |-> m, day |-> d + 1]
    BY <1>1, <1>2, SMT DEF Tomorrow
  <2>2. MonthLength(y, m) \in Int
    BY SMT DEF MonthLength
  <2>3. IsDate([year |-> y, month |-> m, day |-> d + 1])
    BY <1>1, <1>2, <2>2, SMT DEF IsDate
  <2> HIDE DEF y, m, d
  <2>4. days_from_civil(y, m, d + 1) = days_from_civil(y, m, d) + 1
    BY <1>1, SMT
      DEF days_from_civil, MarchYear, DaysBefore, DayOfYear
  <2>5. QED
    BY <2>1, <2>3, <2>4, SMT DEF y, m, d
<1>3. CASE d >= MonthLength(y, m) /\ m < 12
  <2>1. Tomorrow(x) = [year |-> y, month |-> m + 1, day |-> 1]
    BY <1>1, <1>3, SMT DEF Tomorrow, MonthLength
  <2>2. d = MonthLength(y, m)
    BY <1>1, <1>3, SMT DEF MonthLength
  <2>3. IsDate([year |-> y, month |-> m + 1, day |-> 1])
    BY <1>1, <1>3, SMT DEF IsDate, MonthLength
  <2> HIDE DEF y, m, d
  <2>4. days_from_civil(y, m + 1, 1) = days_from_civil(y, m, d) + 1
    <3>1. CASE m # 2
      <4>1. MarchYear(y, m + 1) = MarchYear(y, m)
        BY <1>1, <3>1, SMT DEF MarchYear
      <4>2. DayOfYear(m + 1, 1) = DayOfYear(m, d) + 1 /\ DayOfYear(m, d) \in Int
        BY <1>1, <1>3, <2>2, <3>1, SMT DEF DayOfYear, MonthLength
      <4> DEFINE n == MarchYear(y, m)
                 rest == (n \div 400) * 146097 + DaysBefore(n - (n \div 400) * 400)
      <4>3. rest \in Int
        BY <1>1, SMT DEF MarchYear, DaysBefore
      <4>4. /\ days_from_civil(y, m + 1, 1) = rest + DayOfYear(m + 1, 1) - 719468
            /\ days_from_civil(y, m, d) = rest + DayOfYear(m, d) - 719468
        BY <4>1, SMT DEF days_from_civil
      <4> HIDE DEF rest
      <4>5. QED
        BY <4>2, <4>3, <4>4, SMT
    <3>2. CASE m = 2
      BY <1>1, <2>2, <3>2, SMT
        DEF days_from_civil, MarchYear, DaysBefore, DayOfYear, MonthLength,
            LeapYear
    <3>3. QED
      BY <3>1, <3>2
  <2>5. QED
    BY <2>1, <2>3, <2>4, SMT DEF y, m, d
<1>4. CASE d >= MonthLength(y, m) /\ m = 12
  <2>1. Tomorrow(x) = [year |-> y + 1, month |-> 1, day |-> 1]
    BY <1>1, <1>4, SMT DEF Tomorrow, MonthLength, NewYear
  <2>2. IsDate([year |-> y + 1, month |-> 1, day |-> 1])
    BY <1>1, SMT DEF IsDate, MonthLength
  <2>3. m = 12 /\ d = 31
    BY <1>1, <1>4, SMT DEF MonthLength
  <2> HIDE DEF y, m, d
  <2>4. days_from_civil(y + 1, 1, 1) = days_from_civil(y, 12, 31) + 1
    BY <1>1, SMT DEF days_from_civil, MarchYear, DaysBefore, DayOfYear
  <2>5. QED
    BY <2>1, <2>2, <2>3, <2>4, SMT DEF y, m, d
<1>5. MonthLength(y, m) \in Int
  BY SMT DEF MonthLength
<1>6. QED
  BY <1>1, <1>2, <1>3, <1>4, <1>5, SMT

\* The inductive form of CalendarIsGregorian.
OnDate ==
    /\ IsDate(date)
    /\ days_from_civil(date.year, date.month, date.day) = dayNumber

\* On every day from the start of any year on, civil_from_days and
\* days_from_civil agree with the calendar: leap days, ends of centuries and of
\* eras, before and after 1970.
THEOREM CalendarGregorian == WktSpec => []CalendarIsGregorian
<1>1. WktInit => OnDate
  <2> SUFFICES ASSUME WktInit PROVE OnDate
    OBVIOUS
  <2>1. PICK y \in Years :
           /\ date = NewYear(y)
           /\ dayNumber =
                 365 * (y - 1970) + LeapDaysBefore(y) - LeapDaysBefore(1970)
    BY DEF WktInit
  <2>2. y \in Int
    BY WktAssumption
  <2>3. date = [year |-> y, month |-> 1, day |-> 1]
    BY <2>1 DEF NewYear
  <2>4. IsDate(date)
    BY <2>2, <2>3, SMT DEF IsDate, MonthLength
  <2>5. days_from_civil(y, 1, 1) = dayNumber
    BY <2>1, <2>2, NewYearsDay, SMT
  <2>6. QED
    BY <2>3, <2>4, <2>5, SMT DEF OnDate
<1>2. OnDate /\ [WktNext]_wktVars => OnDate'
  <2> SUFFICES ASSUME OnDate, [WktNext]_wktVars PROVE OnDate'
    OBVIOUS
  <2>1. CASE WktNext
    <3>1. date' = Tomorrow(date) /\ dayNumber' = dayNumber + 1
      BY <2>1 DEF WktNext
    <3>2. /\ IsDate(Tomorrow(date))
          /\ days_from_civil(Tomorrow(date).year, Tomorrow(date).month,
                             Tomorrow(date).day)
               = days_from_civil(date.year, date.month, date.day) + 1
      BY OneDayOn DEF OnDate
    <3>3. IsDate(date')
      BY <3>1, <3>2
    <3>4. days_from_civil(date.year, date.month, date.day)' = dayNumber'
      BY <3>1, <3>2 DEF OnDate
    <3>5. QED
      BY <3>3, <3>4 DEF OnDate
  <2>2. CASE UNCHANGED wktVars
    BY <2>2 DEF OnDate, wktVars
  <2>3. QED
    BY <2>1, <2>2
<1>3. OnDate => CalendarIsGregorian
  BY DateKept DEF OnDate, CalendarIsGregorian
<1>4. QED
  BY <1>1, <1>2, <1>3, PTL DEF WktSpec

-----------------------------------------------------------------------------
(* The texts *)

\* The digits of a fraction and their padding.
LEMMA FractionKept ==
    ASSUME NEW n \in Nat
    PROVE  parse_fraction(Digits(n),
                          IF Digits(n) = 0 THEN 0 ELSE n \div Unit(Digits(n))) = n
<1>1. CASE n = 0
  BY <1>1, SMT DEF parse_fraction, Digits
<1>2. CASE n # 0 /\ n % 1000000 = 0
  <2>1. Digits(n) = 3 /\ Unit(3) = 1000000
    BY <1>2, SMT DEF Digits, Unit
  <2>2. (n \div 1000000) * 1000000 = n
    BY <1>2, SMT
  <2>3. QED
    BY <2>1, <2>2, SMT DEF parse_fraction
<1>3. CASE n # 0 /\ n % 1000000 # 0 /\ n % 1000 = 0
  <2>1. Digits(n) = 6 /\ Unit(6) = 1000
    BY <1>3, SMT DEF Digits, Unit
  <2>2. (n \div 1000) * 1000 = n
    BY <1>3, SMT
  <2>3. QED
    BY <2>1, <2>2, SMT DEF parse_fraction
<1>4. CASE n # 0 /\ n % 1000000 # 0 /\ n % 1000 # 0
  <2>1. Digits(n) = 9 /\ Unit(9) = 1
    BY <1>4, SMT DEF Digits, Unit
  <2>2. (n \div 1) * 1 = n
    BY SMT
  <2>3. QED
    BY <2>1, <2>2, SMT DEF parse_fraction
<1>5. QED
  BY <1>1, <1>2, <1>3, <1>4, SMT

\* format_duration and parse_duration.
LEMMA DurationsKept ==
    ASSUME NEW v, v.seconds \in Int, v.nanos \in Int, SameSign(v)
    PROVE  DurationKept(v)
<1> DEFINE s == v.seconds
           n == v.nanos
           digits == Digits(Abs(n))
           frac == IF digits = 0 THEN 0 ELSE Abs(n) \div Unit(digits)
           neg == s < 0 \/ (s = 0 /\ n < 0)
           sign == IF neg THEN -1 ELSE 1
<1>1. Abs(n) \in Nat /\ Abs(s) \in Nat
  BY SMT DEF Abs
<1>2. parse_fraction(digits, frac) = Abs(n)
  BY <1>1, FractionKept
<1>3. sign * Abs(s) = s /\ sign * Abs(n) = n
  BY SMT DEF Abs, SameSign
<1>4. format_duration(s, n) = [negative |-> neg, secs |-> Abs(s),
                               digits |-> digits, frac |-> frac]
  BY DEF format_duration
<1> HIDE DEF digits, frac, neg
<1>5. parse_duration(format_duration(s, n))
        = [seconds |-> sign * Abs(s), nanos |-> sign * Abs(n)]
  BY <1>2, <1>4, SMT DEF parse_duration
<1>6. QED
  BY <1>3, <1>5, SMT DEF DurationKept

\* The time of a day and its hours, minutes and seconds.
LEMMA TimeOfDayKept ==
    ASSUME NEW t \in Int, 0 <= t
    PROVE  /\ t \div 3600 \in Int /\ (t % 3600) \div 60 \in Int /\ t % 60 \in Int
           /\ (t \div 3600) * 3600 + ((t % 3600) \div 60) * 60 + (t % 60) = t
<1> DEFINE hh == t \div 3600
           r == t % 3600
           mm == r \div 60
<1>1. hh \in Int /\ r \in Int /\ t = hh * 3600 + r
  BY SMT
<1> HIDE DEF hh, r
<1>2. mm \in Int /\ mm * 60 <= r /\ r < mm * 60 + 60
  BY <1>1, SMT
<1> HIDE DEF mm
<1>3. t % 60 = r - mm * 60
  <2>1. t = (hh * 60 + mm) * 60 + (r - mm * 60)
    BY <1>1, <1>2, SMT
  <2>2. QED
    BY <1>1, <1>2, <2>1, SMT
<1>4. /\ hh * 3600 + mm * 60 + (r - mm * 60) = t
      /\ r - mm * 60 \in Int
  BY <1>1, <1>2, SMT
<1>5. /\ hh \in Int /\ mm \in Int /\ t % 60 \in Int
      /\ hh * 3600 + mm * 60 + (t % 60) = t
  BY <1>1, <1>2, <1>3, <1>4
<1>6. QED
  BY <1>5 DEF hh, mm, r

\* format_timestamp and parse_timestamp.
LEMMA TimestampsKept ==
    ASSUME NEW v, v.seconds \in Int, v.nanos \in Int, v.offset \in Int,
           v.nanos >= 0, YearHasNoSign(v)
    PROVE  TimestampKept(v)
<1> DEFINE t == v.seconds + v.offset
           days == t \div 86400
           ofDay == t % 86400
           x == civil_from_days(days)
           digits == Digits(v.nanos)
           frac == IF digits = 0 THEN 0 ELSE v.nanos \div Unit(digits)
           hh == ofDay \div 3600
           mm == (ofDay % 3600) \div 60
           ss == ofDay % 60
<1>1. t \in Int /\ days \in Int /\ ofDay \in Int /\ 0 <= ofDay
      /\ days * 86400 + ofDay = t /\ t - v.offset = v.seconds
  BY SMT
<1>2. parse_fraction(digits, frac) = v.nanos
  BY FractionKept, SMT
<1>3. x.year >= 0
  BY DEF YearHasNoSign
<1>4. format_timestamp(t, v.nanos)
        = [year |-> x.year, month |-> x.month, day |-> x.day,
           hh |-> hh, mm |-> mm, ss |-> ss, digits |-> digits, frac |-> frac]
  BY DEF format_timestamp
<1> HIDE DEF t, days, ofDay, digits, frac
<1>5. x.year \in Int /\ days_from_civil(x.year, x.month, x.day) = days
  BY <1>1, DayKept
<1>6. /\ hh \in Int /\ mm \in Int /\ ss \in Int
      /\ hh * 3600 + mm * 60 + ss = ofDay
  BY <1>1, TimeOfDayKept
<1> HIDE DEF x, hh, mm, ss
<1>7. parse_timestamp(format_timestamp(t, v.nanos), v.offset)
        = [seconds |-> days * 86400 + hh * 3600 + mm * 60 + ss - v.offset,
           nanos |-> v.nanos]
  <2> DEFINE text == [year |-> x.year, month |-> x.month, day |-> x.day,
                      hh |-> hh, mm |-> mm, ss |-> ss,
                      digits |-> digits, frac |-> frac]
  <2>1. /\ text.year = x.year /\ text.month = x.month /\ text.day = x.day
        /\ text.hh = hh /\ text.mm = mm /\ text.ss = ss
        /\ text.digits = digits /\ text.frac = frac
    OBVIOUS
  <2> HIDE DEF text
  <2>2. ~(text.year < 0)
    BY <1>3, <1>5, <2>1, SMT
  <2>3. parse_timestamp(text, v.offset)
          = [seconds |-> days_from_civil(text.year, text.month, text.day) * 86400
                           + text.hh * 3600 + text.mm * 60 + text.ss - v.offset,
             nanos |-> parse_fraction(text.digits, text.frac)]
    BY <2>2, SMT DEF parse_timestamp
  <2>4. QED
    BY <1>2, <1>4, <1>5, <2>1, <2>3, SMT DEF text
<1>8. days * 86400 + hh * 3600 + mm * 60 + ss - v.offset = v.seconds
  BY <1>1, <1>6, SMT
<1>9. QED
  BY <1>7, <1>8 DEF TimestampKept, t

\* Nothing of a Duration or a Timestamp is lost on its way through the text that
\* Serialize writes and Deserialize reads, for all seconds, nanoseconds and zones.
THEOREM NothingLostInText == WktSpec => []TextsKept
<1> DEFINE Inv == value \in Values
<1>1. WktInit => Inv
  BY DEF WktInit
<1>2. Inv /\ [WktNext]_wktVars => Inv'
  BY DEF WktNext, wktVars
<1>3. Inv => TextsKept
  BY WktAssumption, DurationsKept, TimestampsKept DEF TextsKept
<1>4. QED
  BY <1>1, <1>2, <1>3, PTL DEF WktSpec

-----------------------------------------------------------------------------
(* SIP *)

\* A set that holds 0, and with a number the next one, holds every number.
LEMMA Induction ==
    ASSUME NEW S, 0 \in S, \A n \in Nat : n \in S => n + 1 \in S
    PROVE  Nat \subseteq S
<1> DEFINE R == {ss \in Nat \X Nat : ss[1] < ss[2]}
<1>1. IsWellFoundedOn(R, Nat)
  BY Zenon, NatLessThanWellFounded DEF OpToRel
<1>2. SUFFICES ASSUME Nat \ S # {} PROVE FALSE
  OBVIOUS
<1>3. PICK n \in Nat \ S : \A m \in Nat \ S : <<m, n>> \notin R
  BY <1>1, <1>2, WFMin, Zenon
<1>4. n \in Nat /\ n \notin S /\ n # 0
  BY Zenon, <1>3
<1>5. n - 1 \in Nat /\ n - 1 < n /\ (n - 1) + 1 = n
  BY <1>4
<1>6. n - 1 \in S
  BY Zenon, <1>3, <1>4, <1>5
<1> QED
  BY Zenon, <1>4, <1>5, <1>6

\* The loop of match_trunk: each round is one application of its body.
LEMMA TrunkRoundsDef ==
    ASSUME NEW seq, NEW c, Len(seq) \in Nat
    PROVE  /\ TrunkRounds(seq, c)[0] = [selected |-> None, default_trunk |-> None,
                                          default_cnt |-> 0, conflict |-> FALSE]
           /\ \A i \in 1 .. Len(seq) :
                 TrunkRounds(seq, c)[i] = ConsiderTrunk(TrunkRounds(seq, c)[i - 1], seq[i], c)
<1> DEFINE start == [selected |-> None, default_trunk |-> None,
                     default_cnt |-> 0, conflict |-> FALSE]
           Body(f, i) == IF i = 0 THEN start ELSE ConsiderTrunk(f[i - 1], seq[i], c)
           Rounds(f, n) == f = [i \in 0 .. n |-> Body(f, i)]
           S == {n \in Nat : \E f : Rounds(f, n)}
<1> HIDE DEF start
<1>1. 0 \in S
  <2>1. Rounds([i \in 0 .. 0 |-> start], 0)
    BY SMT
  <2> QED
    BY Zenon, <2>1
<1>2. ASSUME NEW n \in Nat, n \in S PROVE n + 1 \in S
  <2>1. PICK f : Rounds(f, n)
    BY Zenon, <1>2
  <2> DEFINE g == [i \in 0 .. n + 1 |->
                     IF i = n + 1 THEN ConsiderTrunk(f[n], seq[n + 1], c) ELSE f[i]]
  <2>2. ASSUME NEW i \in 0 .. n + 1 PROVE g[i] = Body(g, i)
    <3>1. CASE i = n + 1
      <4>1. g[i] = ConsiderTrunk(f[n], seq[n + 1], c) /\ i # 0
        BY <3>1
      <4>2. i - 1 = n /\ g[n] = f[n] /\ n \in 0 .. n + 1 /\ n # n + 1
        BY <3>1
      <4> QED
        BY <3>1, <4>1, <4>2, Zenon
    <3>2. CASE i # n + 1 /\ i # 0
      <4>1. /\ i \in 0 .. n /\ i - 1 \in 0 .. n
            /\ g[i] = f[i] /\ g[i - 1] = f[i - 1]
        BY <3>2
      <4>2. f[i] = Body(f, i)
        BY <2>1, <4>1, Zenon
      <4> QED
        BY <3>2, <4>1, <4>2, Zenon
    <3>3. CASE i = 0
      <4>1. i \in 0 .. n /\ g[i] = f[i]
        BY <3>3
      <4> QED
        BY <2>1, <3>3, <4>1, Zenon
    <3> QED
      BY Zenon, <3>1, <3>2, <3>3
  <2>3. Rounds(g, n + 1)
    BY <2>2, Zenon
  <2>4. n + 1 \in Nat
    OBVIOUS
  <2> QED
    BY <2>3, <2>4, Zenon
<1> HIDE DEF S
<1>3. Len(seq) \in S
  BY <1>1, <1>2, Induction, Zenon
<1>4. \E f : Rounds(f, Len(seq))
  BY Zenon, <1>3 DEF S
<1>5. TrunkRounds(seq, c) = CHOOSE f : Rounds(f, Len(seq))
  BY Zenon DEF TrunkRounds, start
<1>6. Rounds(TrunkRounds(seq, c), Len(seq))
  BY <1>4, <1>5, Zenon
<1>7. ASSUME NEW f, Rounds(f, Len(seq)), NEW i \in 0 .. Len(seq)
      PROVE  f[i] = Body(f, i)
  BY <1>7, Zenon
<1>8. 0 \in 0 .. Len(seq) /\ \A i \in 1 .. Len(seq) : i \in 0 .. Len(seq) /\ i # 0
  OBVIOUS
<1> QED
  BY <1>6, <1>7, <1>8, Zenon DEF start


\* The loop of match_dispatch_rule: each round is one application of its body.
LEMMA RuleRoundsDef ==
    ASSUME NEW seq, NEW tr, NEW req, Len(seq) \in Nat
    PROVE  /\ RuleRounds(seq, tr, req)[0] = [specific |-> None, default_rule |-> None]
           /\ \A i \in 1 .. Len(seq) :
                 RuleRounds(seq, tr, req)[i] =
                     ConsiderRule(RuleRounds(seq, tr, req)[i - 1], seq[i], tr, req)
<1> DEFINE start == [specific |-> None, default_rule |-> None]
           Body(f, i) == IF i = 0 THEN start ELSE ConsiderRule(f[i - 1], seq[i], tr, req)
           Rounds(f, n) == f = [i \in 0 .. n |-> Body(f, i)]
           S == {n \in Nat : \E f : Rounds(f, n)}
<1> HIDE DEF start
<1>1. 0 \in S
  <2>1. Rounds([i \in 0 .. 0 |-> start], 0)
    BY SMT
  <2> QED
    BY Zenon, <2>1
<1>2. ASSUME NEW n \in Nat, n \in S PROVE n + 1 \in S
  <2>1. PICK f : Rounds(f, n)
    BY Zenon, <1>2
  <2> DEFINE g == [i \in 0 .. n + 1 |->
                     IF i = n + 1 THEN ConsiderRule(f[n], seq[n + 1], tr, req) ELSE f[i]]
  <2>2. ASSUME NEW i \in 0 .. n + 1 PROVE g[i] = Body(g, i)
    <3>1. CASE i = n + 1
      <4>1. g[i] = ConsiderRule(f[n], seq[n + 1], tr, req) /\ i # 0
        BY <3>1
      <4>2. i - 1 = n /\ g[n] = f[n] /\ n \in 0 .. n + 1 /\ n # n + 1
        BY <3>1
      <4> QED
        BY <3>1, <4>1, <4>2, Zenon
    <3>2. CASE i # n + 1 /\ i # 0
      <4>1. /\ i \in 0 .. n /\ i - 1 \in 0 .. n
            /\ g[i] = f[i] /\ g[i - 1] = f[i - 1]
        BY <3>2
      <4>2. f[i] = Body(f, i)
        BY <2>1, <4>1, Zenon
      <4> QED
        BY <3>2, <4>1, <4>2, Zenon
    <3>3. CASE i = 0
      <4>1. i \in 0 .. n /\ g[i] = f[i]
        BY <3>3
      <4> QED
        BY <2>1, <3>3, <4>1, Zenon
    <3> QED
      BY Zenon, <3>1, <3>2, <3>3
  <2>3. Rounds(g, n + 1)
    BY <2>2, Zenon
  <2>4. n + 1 \in Nat
    OBVIOUS
  <2> QED
    BY <2>3, <2>4, Zenon
<1> HIDE DEF S
<1>3. Len(seq) \in S
  BY <1>1, <1>2, Induction, Zenon
<1>4. \E f : Rounds(f, Len(seq))
  BY Zenon, <1>3 DEF S
<1>5. RuleRounds(seq, tr, req) = CHOOSE f : Rounds(f, Len(seq))
  BY Zenon DEF RuleRounds, start
<1>6. Rounds(RuleRounds(seq, tr, req), Len(seq))
  BY <1>4, <1>5, Zenon
<1>7. ASSUME NEW f, Rounds(f, Len(seq)), NEW i \in 0 .. Len(seq)
      PROVE  f[i] = Body(f, i)
  BY <1>7, Zenon
<1>8. 0 \in 0 .. Len(seq) /\ \A i \in 1 .. Len(seq) : i \in 0 .. Len(seq) /\ i # 0
  OBVIOUS
<1> QED
  BY <1>6, <1>7, <1>8, Zenon DEF start


-----------------------------------------------------------------------------
(* match_trunk *)

\* The trunks that match_trunk looks for: those with the called number, and those
\* for any number.
Selected(P, c) == {tr \in P : Admits(tr, c) /\ tr.numbers # {} /\ CalledOn(tr, c)}
Default(P, c) == {tr \in P : Admits(tr, c) /\ tr.numbers = {}}

\* What the loop knows of the trunks P that it has looked at.
TrunkFound(acc, P, c) ==
    /\ DOMAIN acc = {"selected", "default_trunk", "default_cnt", "conflict"}
    /\ acc.conflict \in BOOLEAN
    /\ acc.conflict => \E x, y \in Selected(P, c) : x # y
    /\ ~acc.conflict =>
          \/ acc.selected = None /\ Selected(P, c) = {}
          \/ acc.selected # None /\ Selected(P, c) = {acc.selected}
    /\ ~acc.conflict =>
          \/ acc.default_cnt = 0 /\ acc.default_trunk = None /\ Default(P, c) = {}
          \/ acc.default_cnt = 1 /\ Default(P, c) = {acc.default_trunk}
          \/ /\ acc.default_cnt \in Nat /\ acc.default_cnt > 1
             /\ \E x, y \in Default(P, c) : x # y

\* One round of the loop looks at one more trunk.
LEMMA TrunkRoundFinds ==
    ASSUME NEW acc, NEW P, NEW tr, tr \notin P, tr # None, NEW c, TrunkFound(acc, P, c)
    PROVE  TrunkFound(ConsiderTrunk(acc, tr, c), P \cup {tr}, c)
<1> DEFINE Q == P \cup {tr}
           new == ConsiderTrunk(acc, tr, c)
           default == [acc EXCEPT !.default_trunk = tr, !.default_cnt = @ + 1]
           conflict == [acc EXCEPT !.conflict = TRUE]
           selected == [acc EXCEPT !.selected = tr]
<1>1. Selected(P, c) \subseteq Selected(Q, c) /\ Default(P, c) \subseteq Default(Q, c)
  BY Zenon DEF Selected, Default
<1>2. CASE acc.conflict \/ ~Admits(tr, c)
  <2>1. new = acc
    BY Zenon, <1>2 DEF ConsiderTrunk
  <2>2. ~Admits(tr, c) => Selected(Q, c) = Selected(P, c) /\ Default(Q, c) = Default(P, c)
    BY Zenon DEF Selected, Default
  <2> QED
    BY Zenon, <1>1, <1>2, <2>1, <2>2 DEF TrunkFound
<1>3. CASE ~acc.conflict /\ Admits(tr, c) /\ tr.numbers = {}
  <2>1. new = default
    BY Zenon, <1>3 DEF ConsiderTrunk
  <2>2. Selected(Q, c) = Selected(P, c) /\ Default(Q, c) = Default(P, c) \cup {tr}
    BY Zenon, <1>3 DEF Selected, Default
  <2>3. /\ DOMAIN default = DOMAIN acc
        /\ default.selected = acc.selected /\ default.conflict = acc.conflict
        /\ default.default_trunk = tr
        /\ default.default_cnt = acc.default_cnt + 1
    BY Zenon DEF TrunkFound
  <2>4. tr \notin Default(P, c)
    BY Zenon DEF Default
  <2>5. \/ default.default_cnt = 1 /\ Default(Q, c) = {default.default_trunk}
        \/ /\ default.default_cnt \in Nat /\ default.default_cnt > 1
           /\ \E x, y \in Default(Q, c) : x # y
    <3>1. CASE acc.default_cnt = 0 /\ Default(P, c) = {}
      <4>1. default.default_cnt = 1
        BY <2>3, <3>1
      <4> QED
        BY Zenon, <2>2, <2>3, <3>1, <4>1
    <3>2. CASE acc.default_cnt = 1 /\ Default(P, c) = {acc.default_trunk}
      <4>1. default.default_cnt \in Nat /\ default.default_cnt > 1
        BY <2>3, <3>2
      <4> QED
        BY Zenon, <2>2, <2>4, <3>2, <4>1
    <3>3. CASE /\ acc.default_cnt \in Nat /\ acc.default_cnt > 1
               /\ \E x, y \in Default(P, c) : x # y
      <4>1. default.default_cnt \in Nat /\ default.default_cnt > 1
        BY <2>3, <3>3
      <4> QED
        BY Zenon, <2>2, <3>3, <4>1
    <3> QED
      BY Zenon, <1>3, <3>1, <3>2, <3>3 DEF TrunkFound
  <2> HIDE DEF default
  <2> QED
    BY Zenon, <1>3, <2>1, <2>2, <2>3, <2>5 DEF TrunkFound
<1>4. CASE ~acc.conflict /\ Admits(tr, c) /\ tr.numbers # {} /\ ~CalledOn(tr, c)
  <2>1. new = acc
    BY Zenon, <1>4 DEF ConsiderTrunk
  <2>2. Selected(Q, c) = Selected(P, c) /\ Default(Q, c) = Default(P, c)
    BY Zenon, <1>4 DEF Selected, Default
  <2> QED
    BY Zenon, <2>1, <2>2 DEF TrunkFound
<1>5. CASE ~acc.conflict /\ Admits(tr, c) /\ tr.numbers # {} /\ CalledOn(tr, c)
  <2>1. /\ Selected(Q, c) = Selected(P, c) \cup {tr} /\ Default(Q, c) = Default(P, c)
        /\ tr \notin Selected(P, c)
    BY Zenon, <1>5 DEF Selected, Default
  <2>2. CASE acc.selected # None
    <3>1. new = conflict
      BY Zenon, <1>5, <2>2 DEF ConsiderTrunk
    <3>2. DOMAIN conflict = DOMAIN acc /\ conflict.conflict = TRUE
      BY Zenon DEF TrunkFound
    <3>3. acc.selected \in Selected(P, c)
      BY Zenon, <1>5, <2>2 DEF TrunkFound
    <3> HIDE DEF conflict
    <3> QED
      BY Zenon, <2>1, <3>1, <3>2, <3>3 DEF TrunkFound
  <2>3. CASE acc.selected = None
    <3>1. new = selected
      BY Zenon, <1>5, <2>3 DEF ConsiderTrunk
    <3>2. /\ DOMAIN selected = DOMAIN acc /\ selected.selected = tr
          /\ selected.conflict = acc.conflict
          /\ selected.default_trunk = acc.default_trunk
          /\ selected.default_cnt = acc.default_cnt
      BY Zenon DEF TrunkFound
    <3>3. Selected(Q, c) = {tr}
      BY Zenon, <1>5, <2>1, <2>3 DEF TrunkFound
    <3> HIDE DEF selected
    <3> QED
      BY Zenon, <1>5, <2>1, <3>1, <3>2, <3>3 DEF TrunkFound
  <2> QED
    BY Zenon, <2>2, <2>3
<1> QED
  BY Zenon, <1>2, <1>3, <1>4, <1>5

\* What the loop has looked at after i rounds.
Prefix(seq, i) == {seq[j] : j \in 1 .. i}

\* One more round looks at one more element.
LEMMA PrefixGrows ==
    ASSUME NEW seq, NEW i \in Nat
    PROVE  /\ Prefix(seq, 0) = {}
           /\ Prefix(seq, i + 1) = Prefix(seq, i) \cup {seq[i + 1]}
<1>1. 1 .. 0 = {} /\ 1 .. i + 1 = (1 .. i) \cup {i + 1}
  OBVIOUS
<1> QED
  BY Zenon, <1>1 DEF Prefix

\* A list of the set S: each element once.
Lists(S) ==
    {seq \in Seq(S) :
        /\ \A i, j \in 1 .. Len(seq) : i # j => seq[i] # seq[j]
        /\ Prefix(seq, Len(seq)) = S}

\* A finite set that is read back in some order is listed.
LEMMA OrdersLists ==
    ASSUME NEW S, IsFiniteSet(S), NEW seq \in Orders(S)
    PROVE  seq \in Lists(S)
<1> DEFINE n == Cardinality(S)
<1>1. n \in Nat
  BY Zenon, FS_CardinalityType
<1>2. /\ seq \in [1 .. n -> S] /\ seq \in Surjection(1 .. n, S)
      /\ \A i, j \in 1 .. n : i # j => seq[i] # seq[j]
  BY Zenon DEF Orders, Bijection, Injection, Surjection, IsInjective
<1>3. seq \in Seq(S) /\ Len(seq) = n
  BY <1>1, <1>2
<1>4. Prefix(seq, n) = S
  BY Zenon, <1>2 DEF Prefix, Surjection
<1> QED
  BY Zenon, <1>2, <1>3, <1>4 DEF Lists

\* The loop of match_trunk finds what it looks for.
LEMMA TrunkLoopFinds ==
    ASSUME NEW S, None \notin S, NEW seq \in Lists(S), NEW c
    PROVE  TrunkFound(TrunkRounds(seq, c)[Len(seq)], S, c)
<1> DEFINE len == Len(seq)
           Found(i) == TrunkFound(TrunkRounds(seq, c)[i], Prefix(seq, i), c)
           I == {i \in Nat : i <= len => Found(i)}
<1>1. /\ seq \in Seq(S) /\ len \in Nat /\ Prefix(seq, len) = S
      /\ \A i, j \in 1 .. len : i # j => seq[i] # seq[j]
      /\ \A i \in 1 .. len : seq[i] \in S
  BY DEF Lists
<1>2. 0 \in I
  <2>2. TrunkRounds(seq, c)[0] = [selected |-> None, default_trunk |-> None,
                                  default_cnt |-> 0, conflict |-> FALSE]
    BY Zenon, <1>1, TrunkRoundsDef
  <2>3. Prefix(seq, 0) = {}
    BY Zenon, PrefixGrows
  <2>4. Selected({}, c) = {} /\ Default({}, c) = {}
    BY Zenon DEF Selected, Default
  <2>5. Found(0)
    <3>1. TrunkFound([selected |-> None, default_trunk |-> None,
                      default_cnt |-> 0, conflict |-> FALSE], {}, c)
      BY <2>4 DEF TrunkFound
    <3> QED
      BY Zenon, <2>2, <2>3, <3>1
  <2> QED
    BY Zenon, <2>5
<1>3. ASSUME NEW i \in Nat, i \in I PROVE i + 1 \in I
  <2>1. SUFFICES ASSUME i + 1 <= len PROVE Found(i + 1)
    OBVIOUS
  <2>2. i <= len /\ i + 1 \in 1 .. len /\ (i + 1) - 1 = i
    <3>1. len \in Nat
      BY Zenon, <1>1
    <3> HIDE DEF len, I
    <3> QED
      BY <2>1, <3>1
  <2>3. TrunkRounds(seq, c)[i + 1] = ConsiderTrunk(TrunkRounds(seq, c)[i], seq[i + 1], c)
    BY Zenon, <1>1, <2>2, TrunkRoundsDef
  <2>4. seq[i + 1] \notin Prefix(seq, i)
    <3>1. \A j \in 1 .. i : j \in 1 .. len /\ j # i + 1
      BY <1>1, <2>2
    <3> QED
      BY Zenon, <1>1, <2>2, <3>1 DEF Prefix
  <2>5. Found(i) /\ seq[i + 1] # None
    BY Zenon, <1>1, <1>3, <2>2
  <2>6. Prefix(seq, i + 1) = Prefix(seq, i) \cup {seq[i + 1]}
    BY Zenon, PrefixGrows
  <2>7. TrunkFound(ConsiderTrunk(TrunkRounds(seq, c)[i], seq[i + 1], c),
                   Prefix(seq, i) \cup {seq[i + 1]}, c)
    BY Zenon, <2>4, <2>5, TrunkRoundFinds
  <2> QED
    BY Zenon, <2>3, <2>6, <2>7
<1> HIDE DEF I
<1>4. len \in I
  BY Zenon, <1>1, <1>2, <1>3, Induction
<1>5. Found(len)
  BY <1>1, <1>4 DEF I
<1> QED
  BY Zenon, <1>1, <1>5

\* match_trunk depends on the trunks and not on the order in which it reads them.
LEMMA MatchTrunkIsReference ==
    ASSUME NEW S, None \notin S, IsFiniteSet(S), NEW seq \in Orders(S), NEW c
    PROVE  match_trunk(seq, c) = TrunkOf(S, c)
<1> DEFINE acc == TrunkRounds(seq, c)[Len(seq)]
           admitting == {tr \in S : Admits(tr, c)}
           selected == {tr \in admitting : tr.numbers # {} /\ CalledOn(tr, c)}
           default == {tr \in admitting : tr.numbers = {}}
           found == IF selected # {} THEN selected ELSE default
<1>1. TrunkFound(acc, S, c)
  BY Zenon, OrdersLists, TrunkLoopFinds
<1>2. selected = Selected(S, c) /\ default = Default(S, c)
  BY Zenon DEF Selected, Default
<1>3. /\ found \subseteq S /\ IsFiniteSet(found) /\ Cardinality(found) \in Nat
      /\ Cardinality(found) = 0 <=> found = {}
      /\ \A x : found = {x} => Cardinality(found) = 1
      /\ \A x, y \in found : Cardinality(found) = 1 => x = y
  <2>1. found \in SUBSET S
    BY Zenon
  <2>2. IsFiniteSet(found) /\ Cardinality(found) \in Nat
    BY Zenon, <2>1, FS_Subset, FS_CardinalityType
  <2> HIDE DEF found
  <2>3. Cardinality(found) = 0 <=> found = {}
    BY Zenon, <2>2, FS_EmptySet
  <2>4. Cardinality(found) = 1 <=> \E x : found = {x}
    BY Zenon, <2>2, FS_Singleton
  <2> QED
    BY Zenon, <2>1, <2>2, <2>3, <2>4
<1>4. match_trunk(seq, c) =
        IF acc.conflict THEN Err
        ELSE IF acc.selected # None THEN acc.selected
        ELSE IF acc.default_cnt > 1 THEN Err
        ELSE acc.default_trunk
  BY Zenon DEF match_trunk
<1>5. TrunkOf(S, c) =
        CASE Cardinality(found) = 0 -> None
          [] Cardinality(found) = 1 -> CHOOSE tr \in found : TRUE
          [] OTHER -> Err
  BY Zenon DEF TrunkOf
<1>a. found = IF Selected(S, c) # {} THEN Selected(S, c) ELSE Default(S, c)
  BY Zenon, <1>2
<1> HIDE DEF acc, found
<1>6. CASE \E x, y \in found : x # y
  <2>1. Cardinality(found) # 0 /\ Cardinality(found) # 1
    BY Zenon, <1>3, <1>6
  <2>2. TrunkOf(S, c) = Err
    BY Zenon, <1>5, <2>1
  <2>3. acc.conflict \/ (acc.selected = None /\ acc.default_cnt > 1)
    <3>1. CASE Selected(S, c) # {}
      <4>1. \E x, y \in Selected(S, c) : x # y
        BY Zenon, <1>a, <1>6, <3>1
      <4> QED
        BY Zenon, <1>1, <4>1 DEF TrunkFound
    <3>2. CASE Selected(S, c) = {}
      <4>1. Selected(S, c) = {} /\ \E x, y \in Default(S, c) : x # y
        BY Zenon, <1>a, <1>6, <3>2
      <4>2. ~acc.conflict /\ acc.selected = None
        BY Zenon, <1>1, <4>1 DEF TrunkFound
      <4>3. acc.default_cnt > 1
        BY Zenon, <1>1, <4>1, <4>2 DEF TrunkFound
      <4> QED
        BY Zenon, <4>2, <4>3
    <3> QED
      BY Zenon, <3>1, <3>2
  <2> QED
    BY Zenon, <1>4, <2>2, <2>3
<1>7. CASE found = {}
  <2>1. TrunkOf(S, c) = None
    BY <1>3, <1>5, <1>7
  <2>2. ~acc.conflict /\ acc.selected = None /\ acc.default_cnt = 0 /\ acc.default_trunk = None
    BY Zenon, <1>1, <1>a, <1>7 DEF TrunkFound
  <2> QED
    BY <1>4, <2>1, <2>2
<1>8. CASE \E x : found = {x}
  <2>1. PICK x : found = {x}
    BY Zenon, <1>8
  <2>2. TrunkOf(S, c) = CHOOSE tr \in {x} : TRUE
    BY Zenon, <1>3, <1>5, <2>1
  <2>3. TrunkOf(S, c) = x
    BY Zenon, <2>2
  <2>4. CASE Selected(S, c) # {}
    <3>0. Selected(S, c) = {x}
      BY Zenon, <1>a, <2>1, <2>4
    <3>1. ~acc.conflict /\ acc.selected # None /\ acc.selected = x
      BY Zenon, <1>1, <3>0 DEF TrunkFound
    <3> QED
      BY Zenon, <1>4, <2>3, <3>1
  <2>5. CASE Selected(S, c) = {}
    <3>0. Default(S, c) = {x}
      BY Zenon, <1>a, <2>1, <2>5
    <3>1. ~acc.conflict /\ acc.selected = None
      BY Zenon, <1>1, <2>5 DEF TrunkFound
    <3>2. acc.default_cnt = 1 /\ acc.default_trunk = x
      BY Zenon, <1>1, <3>0, <3>1 DEF TrunkFound
    <3> QED
      BY <1>4, <2>3, <3>1, <3>2
  <2> QED
    BY Zenon, <2>4, <2>5
<1> QED
  <2>1. ASSUME NEW x \in found, \A y \in found : y = x PROVE found = {x}
    BY Zenon, <2>1
  <2> QED
    BY Zenon, <1>6, <1>7, <1>8, <2>1

-----------------------------------------------------------------------------
(* match_dispatch_rule *)

\* has_higher_priority is a strict order of the rules that have a kind.
LEMMA PriorityOrders ==
    ASSUME NEW S, \A r \in S : IsRule(r) /\ HasRule(r)
    PROVE  /\ \A r \in S : ~has_higher_priority(r, r)
           /\ \A r, s, t \in S : has_higher_priority(r, s) /\ has_higher_priority(s, t) =>
                 has_higher_priority(r, t)
<1>1. ASSUME NEW r \in S PROVE dispatch_rule_priority(r) \in Nat /\ r.room \in Nat
  <2>1. r.kind \in {"direct", "individual", "callee"} /\ r.room \in Nat
    BY Zenon DEF IsRule, Comparable, HasRule
  <2> QED
    BY <2>1 DEF dispatch_rule_priority
<1> QED
  BY <1>1 DEF has_higher_priority

\* The rules that match_dispatch_rule looks for: those for the call's trunk, and
\* those for all trunks.
Specific(P, tr, req) == {r \in P : Applies(r, tr, req) /\ r.trunk_ids # {}}
ForAll(P, tr, req) == {r \in P : Applies(r, tr, req) /\ r.trunk_ids = {}}

\* The best of the rules F, or none.
IsBest(r, F) ==
    \/ F = {} /\ r = None
    \/ r \in F /\ \A s \in F : ~has_higher_priority(s, r)

\* The better of the best one and another one is the best of all.
LEMMA BetterIsBest ==
    ASSUME NEW F, NEW info, \A r \in F \cup {info} : IsRule(r) /\ HasRule(r) /\ r # None,
           NEW best, IsBest(best, F)
    PROVE  IsBest(IF Better(info, best) THEN info ELSE best, F \cup {info})
<1> DEFINE G == F \cup {info}
<1>1. /\ \A r \in G : ~has_higher_priority(r, r)
      /\ \A r, s, t \in G : has_higher_priority(r, s) /\ has_higher_priority(s, t) =>
            has_higher_priority(r, t)
  BY Zenon, PriorityOrders
<1>2. CASE F = {} /\ best = None
  BY Zenon, <1>1, <1>2 DEF Better, IsBest
<1>3. CASE best \in F /\ \A s \in F : ~has_higher_priority(s, best)
  <2>1. best # None
    BY Zenon, <1>3
  <2>2. CASE has_higher_priority(info, best)
    <3>1. ASSUME NEW s \in G, has_higher_priority(s, info) PROVE FALSE
      <4>1. has_higher_priority(s, best)
        BY Zenon, <1>1, <1>3, <2>2, <3>1
      <4> QED
        BY Zenon, <1>1, <1>3, <3>1, <4>1
    <3> QED
      BY Zenon, <2>2, <3>1 DEF Better, IsBest
  <2>3. CASE ~has_higher_priority(info, best)
    BY Zenon, <1>3, <2>1, <2>3 DEF Better, IsBest
  <2> QED
    BY Zenon, <2>2, <2>3
<1> QED
  BY Zenon, <1>2, <1>3 DEF IsBest

\* What the loop knows of the rules P that it has looked at.
RuleFound(acc, P, tr, req) ==
    /\ DOMAIN acc = {"specific", "default_rule"}
    /\ IsBest(acc.specific, Specific(P, tr, req))
    /\ IsBest(acc.default_rule, ForAll(P, tr, req))

\* One round of the loop looks at one more rule.
LEMMA RuleRoundFinds ==
    ASSUME NEW acc, NEW P, NEW info, NEW tr, NEW req, RuleFound(acc, P, tr, req),
           \A r \in P \cup {info} : IsRule(r) /\ r # None
    PROVE  RuleFound(ConsiderRule(acc, info, tr, req), P \cup {info}, tr, req)
<1> DEFINE Q == P \cup {info}
           new == ConsiderRule(acc, info, tr, req)
           default == [acc EXCEPT !.default_rule = IF Better(info, @) THEN info ELSE @]
           specific == [acc EXCEPT !.specific = IF Better(info, @) THEN info ELSE @]
<1>1. CASE ~Applies(info, tr, req)
  <2>1. new = acc
    BY Zenon, <1>1 DEF ConsiderRule
  <2>2. Specific(Q, tr, req) = Specific(P, tr, req) /\ ForAll(Q, tr, req) = ForAll(P, tr, req)
    BY Zenon, <1>1 DEF Specific, ForAll
  <2> QED
    BY Zenon, <2>1, <2>2 DEF RuleFound
<1>2. CASE Applies(info, tr, req) /\ info.trunk_ids = {}
  <2>1. new = default
    BY Zenon, <1>2 DEF ConsiderRule
  <2>2. /\ Specific(Q, tr, req) = Specific(P, tr, req)
        /\ ForAll(Q, tr, req) = ForAll(P, tr, req) \cup {info}
    BY Zenon, <1>2 DEF Specific, ForAll
  <2>3. /\ DOMAIN default = DOMAIN acc /\ default.specific = acc.specific
        /\ default.default_rule =
              IF Better(info, acc.default_rule) THEN info ELSE acc.default_rule
    BY Zenon DEF RuleFound
  <2>4. \A r \in ForAll(P, tr, req) \cup {info} : IsRule(r) /\ HasRule(r) /\ r # None
    BY Zenon, <1>2 DEF ForAll, Applies
  <2>5. IsBest(IF Better(info, acc.default_rule) THEN info ELSE acc.default_rule,
               ForAll(P, tr, req) \cup {info})
    BY Zenon, <2>4, BetterIsBest DEF RuleFound
  <2> HIDE DEF default
  <2> QED
    BY Zenon, <2>1, <2>2, <2>3, <2>5 DEF RuleFound
<1>3. CASE Applies(info, tr, req) /\ info.trunk_ids # {}
  <2>1. new = specific
    BY Zenon, <1>3 DEF ConsiderRule
  <2>2. /\ ForAll(Q, tr, req) = ForAll(P, tr, req)
        /\ Specific(Q, tr, req) = Specific(P, tr, req) \cup {info}
    BY Zenon, <1>3 DEF Specific, ForAll
  <2>3. /\ DOMAIN specific = DOMAIN acc /\ specific.default_rule = acc.default_rule
        /\ specific.specific = IF Better(info, acc.specific) THEN info ELSE acc.specific
    BY Zenon DEF RuleFound
  <2>4. \A r \in Specific(P, tr, req) \cup {info} : IsRule(r) /\ HasRule(r) /\ r # None
    BY Zenon, <1>3 DEF Specific, Applies
  <2>5. IsBest(IF Better(info, acc.specific) THEN info ELSE acc.specific,
               Specific(P, tr, req) \cup {info})
    BY Zenon, <2>4, BetterIsBest DEF RuleFound
  <2> HIDE DEF specific
  <2> QED
    BY Zenon, <2>1, <2>2, <2>3, <2>5 DEF RuleFound
<1> QED
  BY Zenon, <1>1, <1>2, <1>3

\* The loop of match_dispatch_rule finds what it looks for.
LEMMA RuleLoopFinds ==
    ASSUME NEW S, \A r \in S : IsRule(r) /\ r # None, NEW seq \in Lists(S), NEW tr, NEW req
    PROVE  RuleFound(RuleRounds(seq, tr, req)[Len(seq)], S, tr, req)
<1> DEFINE len == Len(seq)
           Found(i) == RuleFound(RuleRounds(seq, tr, req)[i], Prefix(seq, i), tr, req)
           I == {i \in Nat : i <= len => Found(i)}
<1>1. /\ seq \in Seq(S) /\ len \in Nat /\ Prefix(seq, len) = S
      /\ \A i \in 1 .. len : seq[i] \in S
  BY DEF Lists
<1>2. 0 \in I
  <2>1. RuleRounds(seq, tr, req)[0] = [specific |-> None, default_rule |-> None]
    BY Zenon, <1>1, RuleRoundsDef
  <2>2. Prefix(seq, 0) = {}
    BY Zenon, PrefixGrows
  <2>3. Specific({}, tr, req) = {} /\ ForAll({}, tr, req) = {}
    BY Zenon DEF Specific, ForAll
  <2>4. Found(0)
    <3>1. RuleFound([specific |-> None, default_rule |-> None], {}, tr, req)
      BY <2>3 DEF RuleFound, IsBest
    <3> QED
      BY Zenon, <2>1, <2>2, <3>1
  <2> QED
    BY Zenon, <2>4
<1>3. ASSUME NEW i \in Nat, i \in I PROVE i + 1 \in I
  <2>1. SUFFICES ASSUME i + 1 <= len PROVE Found(i + 1)
    OBVIOUS
  <2>2. i <= len /\ i + 1 \in 1 .. len /\ (i + 1) - 1 = i
    BY <1>1, <2>1
  <2>3. RuleRounds(seq, tr, req)[i + 1] =
          ConsiderRule(RuleRounds(seq, tr, req)[i], seq[i + 1], tr, req)
    <3>1. \A j \in 1 .. len : RuleRounds(seq, tr, req)[j] =
            ConsiderRule(RuleRounds(seq, tr, req)[j - 1], seq[j], tr, req)
      BY Zenon, <1>1, RuleRoundsDef
    <3> QED
      BY Zenon, <2>2, <3>1
  <2>4. \A r \in Prefix(seq, i) \cup {seq[i + 1]} : IsRule(r) /\ r # None
    <3>1. \A j \in 1 .. i : j \in 1 .. len
      BY <1>1, <2>2
    <3> QED
      BY Zenon, <1>1, <2>2, <3>1 DEF Prefix
  <2>5. Found(i)
    BY Zenon, <1>3, <2>2
  <2>6. Prefix(seq, i + 1) = Prefix(seq, i) \cup {seq[i + 1]}
    BY Zenon, PrefixGrows
  <2>7. RuleFound(ConsiderRule(RuleRounds(seq, tr, req)[i], seq[i + 1], tr, req),
                  Prefix(seq, i) \cup {seq[i + 1]}, tr, req)
    BY Zenon, <2>4, <2>5, RuleRoundFinds
  <2> QED
    BY Zenon, <2>3, <2>6, <2>7
<1> HIDE DEF I
<1>4. len \in I
  BY Zenon, <1>1, <1>2, <1>3, Induction
<1>5. Found(len)
  BY <1>1, <1>4 DEF I
<1> QED
  BY Zenon, <1>1, <1>5

\* match_dispatch_rule takes a rule that no other one precedes, in whatever order it
\* reads them.
LEMMA MatchRuleIsReference ==
    ASSUME NEW S, \A r \in S : IsRule(r) /\ r # None, IsFiniteSet(S),
           NEW seq \in Orders(S), NEW tr, NEW req
    PROVE  IF RulesOf(S, tr, req) = {}
             THEN /\ match_dispatch_rule(seq, tr, req) = None
                  /\ \A r \in S : ~Applies(r, tr, req)
             ELSE match_dispatch_rule(seq, tr, req) \in RulesOf(S, tr, req)
<1> DEFINE acc == RuleRounds(seq, tr, req)[Len(seq)]
           rule == match_dispatch_rule(seq, tr, req)
           A == Specific(S, tr, req)
           B == ForAll(S, tr, req)
           found == IF A # {} THEN A ELSE B
<1>1. IsBest(acc.specific, A) /\ IsBest(acc.default_rule, B)
  BY Zenon, OrdersLists, RuleLoopFinds DEF RuleFound
<1>2. rule = IF acc.specific # None THEN acc.specific ELSE acc.default_rule
  BY Zenon DEF match_dispatch_rule
<1>3. None \notin A /\ None \notin B
  BY Zenon DEF Specific, ForAll
<1>4. RulesOf(S, tr, req) = {r \in found : \A s \in found : ~has_higher_priority(s, r)}
  <2> DEFINE fitting == {r \in S : Applies(r, tr, req)}
             specific == {r \in fitting : r.trunk_ids # {}}
  <2>1. specific = A /\ (A = {} => fitting = B)
    BY Zenon DEF Specific, ForAll
  <2> QED
    BY Zenon, <2>1 DEF RulesOf
<1>5. IsBest(rule, found)
  BY Zenon, <1>1, <1>2, <1>3 DEF IsBest
<1> HIDE DEF rule, found
<1>6. CASE found = {} /\ rule = None
  <2>1. A = {} /\ B = {}
    BY Zenon, <1>6 DEF found
  <2>2. \A r \in S : ~Applies(r, tr, req)
    BY Zenon, <2>1 DEF Specific, ForAll
  <2> QED
    BY Zenon, <1>4, <1>6, <2>2 DEF rule
<1>7. CASE rule \in found /\ \A s \in found : ~has_higher_priority(s, rule)
  <2>1. rule \in RulesOf(S, tr, req)
    BY Zenon, <1>4, <1>7
  <2> QED
    BY Zenon, <2>1 DEF rule
<1> QED
  BY Zenon, <1>5, <1>6, <1>7 DEF IsBest

-----------------------------------------------------------------------------
(* What is stored *)

\* Whatever is in the hashes, or was loaded from them, is a trunk or a rule.
HashesKnown ==
    /\ DOMAIN trunks = TrunkIds /\ DOMAIN rules = RuleIds /\ DOMAIN op = Admins
    /\ \A id \in TrunkIds : trunks[id] = None \/ IsTrunk(trunks[id])
    /\ \A id \in RuleIds : rules[id] = None \/ IsRule(rules[id])
    /\ \A a \in Admins :
          /\ op[a].pc \in {"inbound", "outbound"} => IsTrunk(op[a].rec)
          /\ op[a].pc = "rule" => IsRule(op[a].rec)

\* An id and the fields that an update changes keep a trunk a trunk.
LEMMA TrunkStays ==
    ASSUME NEW tr, IsTrunk(tr)
    PROVE  /\ \A id : IsTrunk([tr EXCEPT !.id = id])
           /\ \A u \in TrunkUpdates : IsTrunk(UpdateTrunk(tr, u))
           /\ \A u \in OutboundUpdates : IsTrunk(UpdateOutboundTrunk(tr, u))
<1> USE DEF IsTrunk
<1>1. \A id : IsTrunk([tr EXCEPT !.id = id])
  OBVIOUS
<1>2. ASSUME NEW u \in TrunkUpdates PROVE IsTrunk(UpdateTrunk(tr, u))
  <2>1. u.replace # None => IsTrunk(u.replace)
    BY Zenon, SipAssumption
  <2> QED
    BY Zenon, <2>1 DEF UpdateTrunk
<1>3. ASSUME NEW u \in OutboundUpdates PROVE IsTrunk(UpdateOutboundTrunk(tr, u))
  <2>1. u.replace # None => IsTrunk(u.replace)
    BY Zenon, SipAssumption
  <2> QED
    BY Zenon, <2>1 DEF UpdateOutboundTrunk
<1> QED
  BY Zenon, <1>1, <1>2, <1>3

\* An id and the fields that an update changes keep a rule a rule.
LEMMA RuleStays ==
    ASSUME NEW r, IsRule(r)
    PROVE  /\ \A id : IsRule([r EXCEPT !.id = id])
           /\ \A u \in RuleUpdates : IsRule(UpdateRule(r, u))
<1> USE DEF IsRule, Comparable
<1>1. \A id : IsRule([r EXCEPT !.id = id])
  OBVIOUS
<1>2. ASSUME NEW u \in RuleUpdates PROVE IsRule(UpdateRule(r, u))
  <2>0. /\ u.replace # None => IsRule(u.replace)
        /\ u.rule # None => Comparable(u.rule)
    BY Zenon, SipAssumption
  <2>1. CASE u.replace # None
    BY Zenon, <2>0, <2>1 DEF UpdateRule
  <2>2. CASE u.replace = None
    <3> DEFINE with == IF u.rule # None
                         THEN [r EXCEPT !.kind = u.rule.kind, !.room = u.rule.room,
                                        !.pin = u.rule.pin, !.random = u.rule.random]
                         ELSE r
               ids == apply_list_update(with.trunk_ids, u.trunk_ids)
               media == IF u.media # None THEN u.media ELSE with.media
    <3>1. IsRule(with)
      BY Zenon, <2>0
    <3>2. UpdateRule(r, u) = [with EXCEPT !.trunk_ids = ids, !.media = media]
      BY Zenon, <2>2 DEF UpdateRule
    <3> HIDE DEF with, ids, media
    <3> QED
      BY Zenon, <3>1, <3>2
  <2> QED
    BY Zenon, <2>1, <2>2
<1> QED
  BY Zenon, <1>1, <1>2

\* Every write of the SIP API keeps the hashes as the loops need them.
LEMMA HashesStep == HashesKnown /\ [SipNext]_sipVars => HashesKnown'
<1> SUFFICES ASSUME HashesKnown, [SipNext]_sipVars PROVE HashesKnown'
  OBVIOUS
<1>1. CASE UNCHANGED <<trunks, rules, op>>
  BY Zenon, <1>1 DEF HashesKnown
<1>2. ASSUME NEW a \in Admins, Done(a), NEW id, NEW rec, WriteTrunk(id, rec),
             rec = None \/ IsTrunk(rec)
      PROVE  HashesKnown'
  BY Zenon, <1>2 DEF HashesKnown, Done, WriteTrunk
<1>3. ASSUME NEW a \in Admins, Done(a), NEW id, NEW rec, WriteRule(id, rec),
             rec = None \/ IsRule(rec)
      PROVE  HashesKnown'
  BY Zenon, <1>3 DEF HashesKnown, Done, WriteRule
<1>4. ASSUME NEW a \in Admins, NEW p, NEW id, NEW rec, Loaded(a, p, id, rec),
             UNCHANGED hashes,
             p \in {"inbound", "outbound"} => IsTrunk(rec),
             p = "rule" => IsRule(rec)
      PROVE  HashesKnown'
  BY Zenon, <1>4 DEF HashesKnown, Loaded, hashes
<1>5. ASSUME NEW a \in Admins, Administer(a) PROVE HashesKnown'
  <2>1. CASE CreateSIPInboundTrunk(a)
    BY Zenon, <1>2, <2>1, TrunkStays, SipAssumption DEF CreateSIPInboundTrunk
  <2>2. CASE CreateSIPOutboundTrunk(a)
    BY Zenon, <1>2, <2>2, TrunkStays, SipAssumption DEF CreateSIPOutboundTrunk
  <2>3. CASE LoadTrunk(a)
    <3>1. PICK id \in TrunkIds : trunks[id] # None /\ Loaded(a, trunks[id].kind, id, trunks[id])
      BY Zenon, <2>3 DEF LoadTrunk
    <3>2. IsTrunk(trunks[id]) /\ trunks[id].kind # "rule" /\ UNCHANGED hashes
      BY Zenon, <2>3, <3>1 DEF HashesKnown, IsTrunk, LoadTrunk
    <3> QED
      BY Zenon, <1>4, <3>1, <3>2
  <2>4. CASE StoreTrunk(a)
    BY Zenon, <1>2, <2>4, TrunkStays DEF StoreTrunk, HashesKnown
  <2>5. CASE StoreOutboundTrunk(a)
    BY Zenon, <1>2, <2>5, TrunkStays DEF StoreOutboundTrunk, HashesKnown
  <2>6. CASE DeleteSIPTrunk(a)
    BY Zenon, <1>2, <2>6 DEF DeleteSIPTrunk
  <2>7. CASE CreateSIPDispatchRule(a)
    BY Zenon, <1>3, <2>7, RuleStays, SipAssumption DEF CreateSIPDispatchRule
  <2>8. CASE LoadRule(a)
    <3>1. PICK id \in RuleIds, p \in {"rule", "forget"} :
            rules[id] # None /\ Loaded(a, p, id, rules[id])
      BY Zenon, <2>8 DEF LoadRule
    <3>2. IsRule(rules[id]) /\ p \notin {"inbound", "outbound"} /\ UNCHANGED hashes
      BY Zenon, <2>8, <3>1 DEF HashesKnown, LoadRule
    <3> QED
      BY Zenon, <1>4, <3>1, <3>2
  <2>9. CASE StoreRule(a)
    BY Zenon, <1>3, <2>9, RuleStays DEF StoreRule, HashesKnown
  <2>10. CASE DeleteRule(a)
    BY Zenon, <1>3, <2>10 DEF DeleteRule
  <2> QED
    BY Zenon, <1>5, <2>1, <2>2, <2>3, <2>4, <2>5, <2>6, <2>7, <2>8, <2>9, <2>10 DEF Administer
<1>6. CASE Answer
  BY Zenon, <1>1, <1>6 DEF Answer, get_sip_trunk_authentication, LoadNamedTrunk, MatchTrunks,
     evaluate_sip_dispatch_rules, EnterPin, hashes
<1>7. CASE Dial
  BY Zenon, <1>1, <1>7 DEF Dial, CreateSIPParticipant, LoadOutboundTrunk,
     build_internal_create_participant, ParticipantJoins, RequestFails,
     TransferSIPParticipant, hashes
<1>8. CASE UNCHANGED sipVars
  BY Zenon, <1>1, <1>8 DEF sipVars, hashes
<1> QED
  BY Zenon, <1>5, <1>6, <1>7, <1>8 DEF SipNext

\* The store holds trunks and rules to begin with.
LEMMA HashesInit == SipInit => HashesKnown
<1> SUFFICES ASSUME SipInit PROVE HashesKnown
  OBVIOUS
<1>1. PICK h \in [TrunkIds -> TrunkConfigs \cup {None}] : trunks = Keyed(h)
  BY Zenon DEF SipInit
<1>2. PICK g \in [RuleIds -> RuleConfigs \cup {None}] : rules = Keyed(g)
  BY Zenon DEF SipInit
<1>3. DOMAIN trunks = TrunkIds /\ \A id \in TrunkIds : trunks[id] = None \/ IsTrunk(trunks[id])
  <2>1. \A id \in TrunkIds : h[id] = None \/ IsTrunk(h[id])
    BY Zenon, SipAssumption
  <2> QED
    BY Zenon, <1>1, <2>1, TrunkStays DEF Keyed
<1>4. DOMAIN rules = RuleIds /\ \A id \in RuleIds : rules[id] = None \/ IsRule(rules[id])
  <2>1. \A id \in RuleIds : g[id] = None \/ IsRule(g[id])
    BY Zenon, SipAssumption
  <2> QED
    BY Zenon, <1>2, <2>1, RuleStays DEF Keyed
<1>5. DOMAIN op = Admins /\ \A a \in Admins : op[a].pc = "idle"
  BY Zenon DEF SipInit
<1> QED
  BY Zenon, <1>3, <1>4, <1>5 DEF HashesKnown

\* What is stored in a hash with finitely many ids is finite.
LEMMA StoredFinite ==
    ASSUME NEW hash, IsFiniteSet(DOMAIN hash)
    PROVE  IsFiniteSet(Stored(hash)) /\ None \notin Stored(hash)
<1> DEFINE ids == {i \in DOMAIN hash : hash[i] # None}
           f == [id \in ids |-> hash[id]]
<1>1. IsFiniteSet(ids)
  BY Zenon, FS_Subset
<1>2. f \in Surjection(ids, Stored(hash))
  BY Zenon DEF Surjection, Stored
<1>3. IsFiniteSet(Stored(hash))
  BY Zenon, <1>1, <1>2, FS_Surjection
<1> QED
  BY Zenon, <1>3 DEF Stored

\* The loops meet their references on what is stored.
LEMMA MatchesOnStored ==
    ASSUME HashesKnown
    PROVE  /\ \A seq \in Orders(Inbound) : \A c : match_trunk(seq, c) = TrunkOf(Inbound, c)
           /\ \A seq \in Orders(Stored(rules)) : \A tr, req :
                 IF RulesOf(Stored(rules), tr, req) = {}
                   THEN /\ match_dispatch_rule(seq, tr, req) = None
                        /\ \A r \in Stored(rules) : ~Applies(r, tr, req)
                   ELSE match_dispatch_rule(seq, tr, req) \in RulesOf(Stored(rules), tr, req)
<1>1. /\ IsFiniteSet(Stored(trunks)) /\ None \notin Stored(trunks)
      /\ IsFiniteSet(Stored(rules)) /\ None \notin Stored(rules)
  BY Zenon, StoredFinite, SipAssumption DEF HashesKnown
<1>2. IsFiniteSet(Inbound) /\ None \notin Inbound
  BY Zenon, <1>1, FS_Subset DEF Inbound
<1>3. \A r \in Stored(rules) : IsRule(r) /\ r # None
  BY Zenon, <1>1 DEF Stored, HashesKnown
<1> QED
  BY Zenon, <1>1, <1>2, <1>3, MatchTrunkIsReference, MatchRuleIsReference

\* Rules of which neither precedes the other are of one kind, for one room, and both
\* have a PIN or neither has: the parts of a priority do not add up to one another.
LEMMA TiesAgree ==
    ASSUME NEW r, NEW s, IsRule(r), IsRule(s), HasRule(r), HasRule(s),
           ~has_higher_priority(r, s), ~has_higher_priority(s, r)
    PROVE  /\ r.kind = s.kind /\ r.room = s.room
           /\ r.pin = None <=> s.pin = None
<1>1. /\ r.kind \in {"direct", "individual", "callee"} /\ r.room \in Nat
      /\ s.kind \in {"direct", "individual", "callee"} /\ s.room \in Nat
  BY Zenon DEF IsRule, Comparable, HasRule
<1>2. dispatch_rule_priority(r) \in Nat /\ dispatch_rule_priority(s) \in Nat
  BY <1>1 DEF dispatch_rule_priority
<1>3. dispatch_rule_priority(r) = dispatch_rule_priority(s) /\ r.room = s.room
  BY <1>1, <1>2 DEF has_higher_priority
<1> QED
  BY <1>1, <1>3 DEF dispatch_rule_priority

\* Whatever is stored, and in whatever order HGETALL lists it, match_trunk takes
\* the one trunk with the called number, else the one without numbers, and
\* match_dispatch_rule a rule that no other one precedes, one for the trunk first.
\* The order chooses only among rules of one kind, for one room and alike in asking
\* for a PIN.
THEOREM MatchesAreReference == SipSpec => []MatchIsReference
<1>1. ASSUME HashesKnown PROVE MatchIsReference
  <2> DEFINE best == RulesOf(Stored(rules), trunk, Req)
  <2>1. ASSUME NEW r \in best
        PROVE  /\ IsRule(r) /\ HasRule(r)
               /\ \A s \in best : ~has_higher_priority(s, r)
    <3>1. r \in Stored(rules) /\ Applies(r, trunk, Req)
      BY Zenon DEF RulesOf
    <3>2. \A s \in best : ~has_higher_priority(s, r)
      BY Zenon DEF RulesOf
    <3> QED
      BY Zenon, <1>1, <3>1, <3>2 DEF Stored, HashesKnown, Applies
  <2>2. \A r, s \in best : /\ r.kind = s.kind /\ r.room = s.room
                           /\ r.pin = None <=> s.pin = None
    BY Zenon, <2>1, TiesAgree
  <2> QED
    BY Zenon, <1>1, <2>2, MatchesOnStored
       DEF MatchIsReference, TrunkMatchIsReference, RuleMatchIsReference
<1> QED
  BY <1>1, HashesInit, HashesStep, PTL DEF SipSpec

-----------------------------------------------------------------------------
(* Records and their ids *)

\* A record that was loaded is one of the hash that it will be written to.
LoadedKnown ==
    \A a \in Admins :
       /\ op[a].pc \in {"inbound", "outbound"} => op[a].id \in TrunkIds
       /\ op[a].pc \in {"rule", "forget"} => op[a].id \in RuleIds

\* Records are under their own ids.
OwnIds ==
    /\ \A id \in TrunkIds : trunks[id] = None \/ trunks[id].id = id
    /\ \A id \in RuleIds : rules[id] = None \/ rules[id].id = id
    /\ \A a \in Admins :
          op[a].pc \in {"inbound", "outbound", "rule", "forget"} => op[a].rec.id = op[a].id

\* No update changes an id: a Replace carries one, which is replaced.
LEMMA UpdatesKeepIds ==
    /\ \A tr, id : IsTrunk(tr) \/ IsRule(tr) => [tr EXCEPT !.id = id].id = id
    /\ \A tr : \A u \in TrunkUpdates : IsTrunk(tr) => UpdateTrunk(tr, u).id = tr.id
    /\ \A tr : \A u \in OutboundUpdates : IsTrunk(tr) => UpdateOutboundTrunk(tr, u).id = tr.id
    /\ \A r : \A u \in RuleUpdates : IsRule(r) => UpdateRule(r, u).id = r.id
<1>1. \A tr, id : "id" \in DOMAIN tr => [tr EXCEPT !.id = id].id = id
  OBVIOUS
<1>2. ASSUME NEW tr, NEW u \in TrunkUpdates, IsTrunk(tr) PROVE UpdateTrunk(tr, u).id = tr.id
  <2>1. u.replace # None => "id" \in DOMAIN u.replace
    BY Zenon, SipAssumption DEF IsTrunk
  <2> QED
    BY Zenon, <1>1, <1>2, <2>1 DEF UpdateTrunk, IsTrunk
<1>3. ASSUME NEW tr, NEW u \in OutboundUpdates, IsTrunk(tr)
      PROVE  UpdateOutboundTrunk(tr, u).id = tr.id
  <2>1. u.replace # None => "id" \in DOMAIN u.replace
    BY Zenon, SipAssumption DEF IsTrunk
  <2> QED
    BY Zenon, <1>1, <1>3, <2>1 DEF UpdateOutboundTrunk, IsTrunk
<1>4. ASSUME NEW r, NEW u \in RuleUpdates, IsRule(r) PROVE UpdateRule(r, u).id = r.id
  <2>1. u.replace # None => "id" \in DOMAIN u.replace
    BY Zenon, SipAssumption DEF IsRule
  <2>2. CASE u.replace # None
    BY Zenon, <1>1, <2>1, <2>2 DEF UpdateRule
  <2>3. CASE u.replace = None
    <3> DEFINE with == IF u.rule # None
                         THEN [r EXCEPT !.kind = u.rule.kind, !.room = u.rule.room,
                                        !.pin = u.rule.pin, !.random = u.rule.random]
                         ELSE r
               ids == apply_list_update(with.trunk_ids, u.trunk_ids)
               media == IF u.media # None THEN u.media ELSE with.media
    <3>1. "id" \in DOMAIN with /\ with.id = r.id
      BY Zenon, <1>4 DEF IsRule
    <3>2. UpdateRule(r, u) = [with EXCEPT !.trunk_ids = ids, !.media = media]
      BY Zenon, <2>3 DEF UpdateRule
    <3> HIDE DEF with, ids, media
    <3> QED
      BY Zenon, <3>1, <3>2
  <2> QED
    BY Zenon, <2>2, <2>3
<1> QED
  BY Zenon, <1>1, <1>2, <1>3, <1>4 DEF IsTrunk, IsRule

\* Creating, loading, updating and deleting keep the records under their ids.
LEMMA OwnIdsStep ==
    ASSUME HashesKnown, LoadedKnown, OwnIds, [SipNext]_sipVars
    PROVE  LoadedKnown' /\ OwnIds'
<1>1. CASE UNCHANGED <<trunks, rules, op>>
  BY Zenon, <1>1 DEF LoadedKnown, OwnIds
<1>2. ASSUME NEW a \in Admins, Done(a), NEW id, NEW rec, WriteTrunk(id, rec),
             rec = None \/ rec.id = id
      PROVE  LoadedKnown' /\ OwnIds'
  BY Zenon, <1>2 DEF HashesKnown, LoadedKnown, OwnIds, Done, WriteTrunk
<1>3. ASSUME NEW a \in Admins, Done(a), NEW id, NEW rec, WriteRule(id, rec),
             rec = None \/ rec.id = id
      PROVE  LoadedKnown' /\ OwnIds'
  BY Zenon, <1>3 DEF HashesKnown, LoadedKnown, OwnIds, Done, WriteRule
<1>4. ASSUME NEW a \in Admins, NEW p, NEW id, NEW rec, Loaded(a, p, id, rec),
             UNCHANGED hashes, rec.id = id,
             p \in {"inbound", "outbound"} => id \in TrunkIds,
             p \in {"rule", "forget"} => id \in RuleIds
      PROVE  LoadedKnown' /\ OwnIds'
  BY Zenon, <1>4 DEF HashesKnown, LoadedKnown, OwnIds, Loaded, hashes
<1>5. ASSUME NEW a \in Admins, Administer(a) PROVE LoadedKnown' /\ OwnIds'
  <2>1. CASE CreateSIPInboundTrunk(a)
    BY Zenon, <1>2, <2>1, UpdatesKeepIds, SipAssumption DEF CreateSIPInboundTrunk
  <2>2. CASE CreateSIPOutboundTrunk(a)
    BY Zenon, <1>2, <2>2, UpdatesKeepIds, SipAssumption DEF CreateSIPOutboundTrunk
  <2>3. CASE LoadTrunk(a)
    <3>1. PICK id \in TrunkIds : trunks[id] # None /\ Loaded(a, trunks[id].kind, id, trunks[id])
      BY Zenon, <2>3 DEF LoadTrunk
    <3>2. /\ trunks[id].id = id /\ trunks[id].kind \notin {"rule", "forget"}
          /\ UNCHANGED hashes
      BY Zenon, <2>3, <3>1 DEF HashesKnown, IsTrunk, LoadTrunk, OwnIds
    <3> QED
      BY Zenon, <1>4, <3>1, <3>2
  <2>4. CASE StoreTrunk(a)
    <3>1. PICK u \in TrunkUpdates : WriteTrunk(op[a].id, UpdateTrunk(op[a].rec, u))
      BY Zenon, <2>4 DEF StoreTrunk
    <3>2. IsTrunk(op[a].rec) /\ op[a].rec.id = op[a].id /\ Done(a)
      BY Zenon, <2>4 DEF StoreTrunk, HashesKnown, OwnIds
    <3>3. UpdateTrunk(op[a].rec, u).id = op[a].id
      BY Zenon, <3>2, UpdatesKeepIds
    <3> QED
      BY Zenon, <1>2, <3>1, <3>2, <3>3
  <2>5. CASE StoreOutboundTrunk(a)
    <3>1. PICK u \in OutboundUpdates : WriteTrunk(op[a].id, UpdateOutboundTrunk(op[a].rec, u))
      BY Zenon, <2>5 DEF StoreOutboundTrunk
    <3>2. IsTrunk(op[a].rec) /\ op[a].rec.id = op[a].id /\ Done(a)
      BY Zenon, <2>5 DEF StoreOutboundTrunk, HashesKnown, OwnIds
    <3>3. UpdateOutboundTrunk(op[a].rec, u).id = op[a].id
      BY Zenon, <3>2, UpdatesKeepIds
    <3> QED
      BY Zenon, <1>2, <3>1, <3>2, <3>3
  <2>6. CASE DeleteSIPTrunk(a)
    BY Zenon, <1>2, <2>6 DEF DeleteSIPTrunk
  <2>7. CASE CreateSIPDispatchRule(a)
    BY Zenon, <1>3, <2>7, UpdatesKeepIds, SipAssumption DEF CreateSIPDispatchRule
  <2>8. CASE LoadRule(a)
    <3>1. PICK id \in RuleIds, p \in {"rule", "forget"} :
            rules[id] # None /\ Loaded(a, p, id, rules[id])
      BY Zenon, <2>8 DEF LoadRule
    <3>2. rules[id].id = id /\ p \notin {"inbound", "outbound"} /\ UNCHANGED hashes
      BY Zenon, <2>8, <3>1 DEF LoadRule, OwnIds
    <3> QED
      BY Zenon, <1>4, <3>1, <3>2
  <2>9. CASE StoreRule(a)
    <3>1. PICK u \in RuleUpdates : WriteRule(op[a].id, UpdateRule(op[a].rec, u))
      BY Zenon, <2>9 DEF StoreRule
    <3>2. IsRule(op[a].rec) /\ op[a].rec.id = op[a].id /\ Done(a)
      BY Zenon, <2>9 DEF StoreRule, HashesKnown, OwnIds
    <3>3. UpdateRule(op[a].rec, u).id = op[a].id
      BY Zenon, <3>2, UpdatesKeepIds
    <3> QED
      BY Zenon, <1>3, <3>1, <3>2, <3>3
  <2>10. CASE DeleteRule(a)
    BY Zenon, <1>3, <2>10 DEF DeleteRule
  <2> QED
    BY Zenon, <1>5, <2>1, <2>2, <2>3, <2>4, <2>5, <2>6, <2>7, <2>8, <2>9, <2>10 DEF Administer
<1>6. CASE Answer
  BY Zenon, <1>1, <1>6 DEF Answer, get_sip_trunk_authentication, LoadNamedTrunk, MatchTrunks,
     evaluate_sip_dispatch_rules, EnterPin, hashes
<1>7. CASE Dial
  BY Zenon, <1>1, <1>7 DEF Dial, CreateSIPParticipant, LoadOutboundTrunk,
     build_internal_create_participant, ParticipantJoins, RequestFails,
     TransferSIPParticipant, hashes
<1>8. CASE UNCHANGED sipVars
  BY Zenon, <1>1, <1>8 DEF sipVars, hashes
<1> QED
  BY Zenon, <1>5, <1>6, <1>7, <1>8 DEF SipNext

-----------------------------------------------------------------------------
(* An inbound call *)

\* A rule that match_dispatch_rule returns applies to the call.
LEMMA BestApplies ==
    ASSUME NEW S, NEW tr, NEW req
    PROVE  \A r \in RulesOf(S, tr, req) : r \in S /\ Applies(r, tr, req)
  BY Zenon DEF RulesOf

\* What the second question answers.
LEMMA Evaluates ==
    ASSUME HashesKnown, evaluate_sip_dispatch_rules
    PROVE  \/ /\ \A r \in Stored(rules) : ~Applies(r, trunk, Req)
              /\ pc' = "drop" /\ asked' = asked
           \/ \E rule \in Stored(rules) :
                 /\ Applies(rule, trunk, Req) /\ rule # None
                 /\ \/ pc' = "panic" /\ call.from = None /\ asked' = asked
                    \/ pc' = "request_pin" /\ rule.pin # None /\ pin = None /\ asked' = rule
                    \/ pc' = "error" /\ rule.pin # None /\ rule.pin # pin /\ pin # None
                       /\ asked' = asked
                    \/ pc' = "accept" /\ answer'.rule = rule /\ asked' = asked
                       /\ (rule.pin = None \/ rule.pin = pin)
<1> DEFINE Rule(seq) == match_dispatch_rule(seq, trunk, Req)
           Resp(rule) == IF rule = None THEN [result |-> "drop"]
                         ELSE evaluate_dispatch_rule(trunk, rule, Req, call)
<1>1. PICK seq \in Orders(Stored(rules)) :
         /\ answer' = Resp(Rule(seq))
         /\ pc' = Resp(Rule(seq)).result
         /\ asked' = IF Resp(Rule(seq)).result = "request_pin" THEN Rule(seq) ELSE asked
  BY Zenon DEF evaluate_sip_dispatch_rules
<1> DEFINE rule == Rule(seq)
           resp == Resp(rule)
<1>2. answer' = resp /\ pc' = resp.result
      /\ asked' = IF resp.result = "request_pin" THEN rule ELSE asked
  BY Zenon, <1>1
<1>3. IF RulesOf(Stored(rules), trunk, Req) = {}
      THEN rule = None /\ \A r \in Stored(rules) : ~Applies(r, trunk, Req)
      ELSE rule \in RulesOf(Stored(rules), trunk, Req)
  BY Zenon, MatchesOnStored
<1>4. None \notin Stored(rules)
  BY Zenon DEF Stored
<1> HIDE DEF rule
<1>5. CASE RulesOf(Stored(rules), trunk, Req) = {}
  <2>1. resp = [result |-> "drop"]
    BY Zenon, <1>3, <1>5
  <2>2. resp.result = "drop"
    BY <2>1
  <2> QED
    BY Zenon, <1>2, <1>3, <1>5, <2>2
<1>6. CASE RulesOf(Stored(rules), trunk, Req) # {}
  <2>1. rule \in Stored(rules) /\ Applies(rule, trunk, Req) /\ rule # None
    BY Zenon, <1>3, <1>4, <1>6, BestApplies
  <2>2. resp = evaluate_dispatch_rule(trunk, rule, Req, call) /\ Req.pin = pin
    BY Zenon, <2>1 DEF Req
  <2>3. \/ resp.result = "panic" /\ call.from = None
        \/ resp.result = "request_pin" /\ rule.pin # None /\ pin = None
        \/ resp.result = "error" /\ rule.pin # None /\ rule.pin # pin /\ pin # None
        \/ resp.result = "accept" /\ resp.rule = rule /\ (rule.pin = None \/ rule.pin = pin)
    BY Zenon, <2>2 DEF evaluate_dispatch_rule
  <2> HIDE DEF resp
  <2>4. \/ pc' = "panic" /\ call.from = None /\ asked' = asked
        \/ pc' = "request_pin" /\ rule.pin # None /\ pin = None /\ asked' = rule
        \/ pc' = "error" /\ rule.pin # None /\ rule.pin # pin /\ pin # None /\ asked' = asked
        \/ /\ pc' = "accept" /\ answer'.rule = rule /\ asked' = asked
           /\ rule.pin = None \/ rule.pin = pin
    BY Zenon, <1>2, <2>3
  <2> QED
    BY Zenon, <2>1, <2>4
<1> QED
  BY Zenon, <1>5, <1>6

\* What the calls of the SIP API leave alone.
LEMMA AdministerKeeps ==
    ASSUME NEW a \in Admins, Administer(a)
    PROVE  /\ UNCHANGED <<callVars, outVars>>
           /\ quiet' = FALSE \/ UNCHANGED <<hashes, quiet>>
  BY Zenon DEF Administer, CreateSIPInboundTrunk, CreateSIPOutboundTrunk, LoadTrunk, StoreTrunk,
     StoreOutboundTrunk, DeleteSIPTrunk, CreateSIPDispatchRule, LoadRule, StoreRule, DeleteRule,
     WriteTrunk, WriteRule

\* The reference names a trunk, or none, or the conflict.
LEMMA TrunkOfKnown ==
    ASSUME NEW S, NEW c
    PROVE  TrunkOf(S, c) \in {Err, None} \/ TrunkOf(S, c) \in S
<1> DEFINE admitting == {tr \in S : Admits(tr, c)}
           selected == {tr \in admitting : tr.numbers # {} /\ CalledOn(tr, c)}
           default == {tr \in admitting : tr.numbers = {}}
           found == IF selected # {} THEN selected ELSE default
           chosen == CHOOSE tr \in found : TRUE
<1>1. found \subseteq S
  OBVIOUS
<1>2. TrunkOf(S, c) = CASE Cardinality(found) = 0 -> None
                         [] Cardinality(found) = 1 -> chosen
                         [] OTHER -> Err
  BY Zenon DEF TrunkOf
<1> HIDE DEF found
<1>3. CASE Cardinality(found) = 1
  <2>1. found # {}
    BY <1>3, FS_EmptySet
  <2>2. chosen \in found
    BY Zenon, <2>1
  <2>3. TrunkOf(S, c) = chosen
    BY <1>2, <1>3
  <2> QED
    BY Zenon, <1>1, <2>2, <2>3
<1>4. CASE Cardinality(found) # 1
  BY Zenon, <1>2, <1>4
<1> QED
  BY Zenon, <1>3, <1>4

\* The first question names a trunk that is stored, or none.
LEMMA NamesStored ==
    ASSUME HashesKnown, OwnIds, get_sip_trunk_authentication
    PROVE  trunkId' \in TrunkIds \cup {None}
<1>1. PICK seq \in Orders(Inbound) :
         trunkId' = LET t == match_trunk(seq, call)
                    IN  IF t \in {Err, None} THEN None ELSE t.id
  BY Zenon DEF get_sip_trunk_authentication
<1> DEFINE t == match_trunk(seq, call)
<1>2. t = TrunkOf(Inbound, call)
  BY Zenon, MatchesOnStored
<1>3. t \in {Err, None} \/ t \in Inbound
  BY Zenon, <1>2, TrunkOfKnown
<1>4. \A tr \in Inbound : tr.id \in TrunkIds
  BY Zenon DEF Inbound, Stored, HashesKnown, OwnIds
<1> HIDE DEF t
<1> QED
  BY Zenon, <1>1, <1>3, <1>4 DEF t

\* Every record of the SIP store is under its own id, whatever id a Replace carried
\* and whatever was loaded before a concurrent write, and the questions about a call
\* and the requests for one go through the known states only.
THEOREM SipTypeCorrect == SipSpec => []SipTypeOK
<1> DEFINE Places == {"ringing", "dispatch", "list", "rules", "request_pin",
                      "accept", "drop", "error", "panic",
                      "requested", "load", "build", "sent", "dialled"}
           Known == /\ minted \subseteq TrunkIds \cup RuleIds
                    /\ pc \in Places
                    /\ trunkId \in TrunkIds \cup {None}
                    /\ pin \in Pins \cup {None}
                    /\ noPin \in BOOLEAN /\ quiet \in BOOLEAN
           Inv == HashesKnown /\ LoadedKnown /\ OwnIds /\ Known
<1>1. SipInit => Inv
  <2> SUFFICES ASSUME SipInit PROVE Inv
    OBVIOUS
  <2>1. HashesKnown
    BY Zenon, HashesInit
  <2>2. LoadedKnown /\ \A a \in Admins : op[a].pc = "idle"
    BY Zenon DEF SipInit, LoadedKnown
  <2>3. \A id \in TrunkIds : trunks[id] = None \/ trunks[id].id = id
    <3>1. PICK h \in [TrunkIds -> TrunkConfigs \cup {None}] : trunks = Keyed(h)
      BY Zenon DEF SipInit
    <3>2. \A id \in TrunkIds : h[id] = None \/ IsTrunk(h[id])
      BY Zenon, SipAssumption
    <3> QED
      <4> TAKE id \in TrunkIds
      <4>1. trunks[id] = IF h[id] = None THEN None ELSE [h[id] EXCEPT !.id = id]
        BY Zenon, <3>1 DEF Keyed
      <4>2. h[id] # None => [h[id] EXCEPT !.id = id].id = id
        BY Zenon, <3>2, UpdatesKeepIds
      <4> QED
        BY Zenon, <4>1, <4>2
  <2>4. \A id \in RuleIds : rules[id] = None \/ rules[id].id = id
    <3>1. PICK h \in [RuleIds -> RuleConfigs \cup {None}] : rules = Keyed(h)
      BY Zenon DEF SipInit
    <3>2. \A id \in RuleIds : h[id] = None \/ IsRule(h[id])
      BY Zenon, SipAssumption
    <3> QED
      <4> TAKE id \in RuleIds
      <4>1. rules[id] = IF h[id] = None THEN None ELSE [h[id] EXCEPT !.id = id]
        BY Zenon, <3>1 DEF Keyed
      <4>2. h[id] # None => [h[id] EXCEPT !.id = id].id = id
        BY Zenon, <3>2, UpdatesKeepIds
      <4> QED
        BY Zenon, <4>1, <4>2
  <2>5. Known
    BY Zenon DEF SipInit
  <2> QED
    BY Zenon, <2>1, <2>2, <2>3, <2>4, <2>5 DEF OwnIds
<1>2. Inv /\ [SipNext]_sipVars => Inv'
  <2> SUFFICES ASSUME Inv, [SipNext]_sipVars PROVE Known'
    BY Zenon, HashesStep, OwnIdsStep
  <2>1. CASE get_sip_trunk_authentication
    <3>1. pc' \in Places
      BY Zenon, <2>1 DEF get_sip_trunk_authentication
    <3> QED
      BY Zenon, <2>1, <3>1, NamesStored DEF get_sip_trunk_authentication
  <2>2. CASE LoadNamedTrunk
    BY Zenon, <2>2 DEF LoadNamedTrunk
  <2>3. CASE MatchTrunks
    BY Zenon, <2>3 DEF MatchTrunks
  <2>4. CASE evaluate_sip_dispatch_rules
    <3>1. pc' \in Places
      BY Zenon, <2>4, Evaluates
    <3> QED
      BY Zenon, <2>4, <3>1 DEF evaluate_sip_dispatch_rules
  <2>5. CASE EnterPin
    BY Zenon, <2>5 DEF EnterPin
  <2>6. CASE Dial
    BY Zenon, <2>6 DEF Dial, CreateSIPParticipant, LoadOutboundTrunk,
       build_internal_create_participant, ParticipantJoins, RequestFails,
       TransferSIPParticipant, inVars
  <2>7. ASSUME NEW a \in Admins, Administer(a) PROVE Known'
    <3>1. UNCHANGED <<pc, trunkId, pin, noPin>> /\ quiet' \in BOOLEAN
      BY Zenon, <2>7, AdministerKeeps DEF callVars
    <3>2. minted' \subseteq TrunkIds \cup RuleIds
      BY Zenon, <2>7 DEF Administer, CreateSIPInboundTrunk, CreateSIPOutboundTrunk, LoadTrunk,
         StoreTrunk, StoreOutboundTrunk, DeleteSIPTrunk, CreateSIPDispatchRule, LoadRule,
         StoreRule, DeleteRule
    <3> QED
      BY Zenon, <3>1, <3>2
  <2>8. CASE UNCHANGED sipVars
    BY Zenon, <2>8 DEF sipVars, callVars
  <2> QED
    BY Zenon, <2>1, <2>2, <2>3, <2>4, <2>5, <2>6, <2>7, <2>8 DEF SipNext, Answer
<1>3. Inv => SipTypeOK
  BY Zenon DEF OwnIds, SipTypeOK
<1> QED
  BY <1>1, <1>2, <1>3, PTL DEF SipSpec

\* Where an inbound call may be before it is answered, and an outbound one.
Questions == {"ringing", "dispatch", "list", "rules", "request_pin"}

\* no_pin is sent without a PIN, and only calls that came are evaluated.
PinKnown ==
    /\ noPin \in BOOLEAN
    /\ noPin => pin = None
    /\ pc \in Questions => call \in Calls
    /\ PinProtects

\* A PIN is looked at by the filter and by the evaluation of every rule.
LEMMA PinStep == HashesKnown /\ PinKnown /\ [SipNext]_sipVars => PinKnown'
<1> SUFFICES ASSUME HashesKnown, PinKnown, [SipNext]_sipVars PROVE PinKnown'
  OBVIOUS
<1> USE DEF PinKnown, PinProtects
<1>1. CASE get_sip_trunk_authentication
  BY Zenon, <1>1 DEF get_sip_trunk_authentication, Questions
<1>2. CASE LoadNamedTrunk
  BY Zenon, <1>2 DEF LoadNamedTrunk, Questions
<1>3. CASE MatchTrunks
  BY Zenon, <1>3 DEF MatchTrunks, Questions
<1>4. CASE evaluate_sip_dispatch_rules
  <2>1. UNCHANGED <<call, pin, noPin>> /\ call \in Calls
    BY Zenon, <1>4 DEF evaluate_sip_dispatch_rules, Questions
  <2>2. ASSUME pc' = "accept" PROVE answer'.rule.pin = pin
    <3>1. PICK rule : /\ Applies(rule, trunk, Req) /\ answer'.rule = rule
                      /\ rule.pin = None \/ rule.pin = pin
      BY Zenon, <1>4, <2>2, Evaluates
    <3>2. PinFits(rule, Req) /\ Req.pin = pin /\ Req.no_pin = noPin
      BY Zenon, <3>1 DEF Applies, Req
    <3> QED
      BY Zenon, <3>1, <3>2 DEF PinFits
  <2> QED
    BY Zenon, <2>1, <2>2
<1>5. CASE EnterPin
  BY Zenon, <1>5 DEF EnterPin, Questions
<1>6. CASE Dial
  BY <1>6 DEF Dial, CreateSIPParticipant, LoadOutboundTrunk,
     build_internal_create_participant, ParticipantJoins, RequestFails,
     TransferSIPParticipant, inVars, outVars, Questions
<1>7. ASSUME NEW a \in Admins, Administer(a) PROVE PinKnown'
  BY Zenon, <1>7, AdministerKeeps DEF callVars
<1>8. CASE UNCHANGED sipVars
  BY Zenon, <1>8 DEF sipVars, callVars
<1> QED
  BY Zenon, <1>1, <1>2, <1>3, <1>4, <1>5, <1>6, <1>7, <1>8 DEF SipNext, Answer

\* A call is let into a room with the PIN of the room's rule, or without one where
\* the rule has none, whatever the calls of the SIP API write between the question
\* for the PIN and the answer.
THEOREM PinsProtect == SipSpec => []PinProtects
<1>1. SipInit => PinKnown
  BY Zenon DEF SipInit, PinKnown, PinProtects, Questions
<1>2. PinKnown => PinProtects
  BY Zenon DEF PinKnown
<1> QED
  BY <1>1, <1>2, HashesInit, HashesStep, PinStep, PTL DEF SipSpec

\* The trunk that match_trunk_for returns where nothing is written: the named one if
\* it admits the call, else the one that matches.
Named == IF trunkId = None THEN None ELSE trunks[trunkId]
Fits == Named # None /\ Named.kind = "inbound" /\ match_trunk(<<Named>>, call) # None
Resolved == IF Fits THEN Named ELSE TrunkOf(Inbound, call)
Resolves == Fits \/ TrunkOf(Inbound, call) # Err

\* The first question for the rules: without a PIN.
Ask == [calling_number |-> call.calling, called_number |-> call.called,
        pin |-> None, no_pin |-> FALSE]

\* Where a caller who was asked for a PIN may be.
Asked == {"request_pin", "dispatch", "list", "rules", "accept", "drop", "error", "panic"}

\* As long as nothing is written, the trunk of the second evaluation is that of the
\* first, and the rule that asked for its PIN still applies to the call.
EnoughKnown ==
    /\ asked # None => pc \in Asked /\ (pc = "request_pin" \/ pin # None \/ noPin)
    /\ quiet /\ pc = "list" => ~Fits
    /\ quiet /\ pc = "rules" => trunk = Resolved /\ Resolves
    /\ quiet /\ asked # None =>
          /\ Resolves /\ asked \in Stored(rules) /\ asked.pin # None
          /\ Applies(asked, Resolved, Ask)
    /\ PinIsEnough

\* Where nothing is written the same trunk is found.
LEMMA ResolvedKept ==
    ASSUME UNCHANGED <<trunks, trunkId, call>>
    PROVE  Fits' = Fits /\ Resolved' = Resolved /\ Resolves' = Resolves /\ Ask' = Ask
<1>1. Named' = Named /\ Inbound' = Inbound
  BY Zenon DEF Named, Inbound, Stored
<1>2. Fits' = Fits
  BY Zenon, <1>1 DEF Fits
<1> QED
  BY Zenon, <1>1, <1>2 DEF Resolved, Resolves, Ask

\* The rule that asked for its PIN applies to the call with that PIN.
LEMMA AskedApplies ==
    ASSUME NEW tr, Applies(asked, tr, Ask), pin = asked.pin, noPin = FALSE
    PROVE  Applies(asked, tr, Req)
<1>1. /\ Req.calling_number = Ask.calling_number /\ Req.called_number = Ask.called_number
      /\ Req.pin = asked.pin /\ Req.no_pin = FALSE
  BY Zenon DEF Req, Ask
<1> QED
  BY Zenon, <1>1 DEF Applies, PinFits

\* Nothing changed that the questions depend on.
LEMMA EnoughKept ==
    ASSUME EnoughKnown, UNCHANGED <<trunks, rules, quiet, callVars>>
    PROVE  EnoughKnown'
<1>1. UNCHANGED <<Fits, Resolved, Resolves, Ask, Stored(rules)>>
  BY Zenon, ResolvedKept DEF callVars, Stored
<1> QED
  BY Zenon, <1>1 DEF EnoughKnown, PinIsEnough, Answered, callVars

\* The second evaluation, where nothing was written, lets the caller in.
LEMMA EvaluateLetsIn ==
    ASSUME HashesKnown, PinKnown, EnoughKnown, evaluate_sip_dispatch_rules
    PROVE  EnoughKnown'
<1>1. /\ pc = "rules" /\ UNCHANGED <<hashes, call, trunkId, trunk, pin, noPin, quiet>>
  BY Zenon DEF evaluate_sip_dispatch_rules
<1>2. /\ UNCHANGED <<Fits, Resolved, Resolves, Ask, Stored(rules)>>
      /\ noPin \in BOOLEAN /\ (noPin => pin = None)
  BY Zenon, <1>1, ResolvedKept DEF hashes, Stored, PinKnown
<1>3. quiet => trunk = Resolved /\ Resolves
  BY Zenon, <1>1 DEF EnoughKnown
<1>4. asked # None => pin # None \/ noPin
  BY Zenon, <1>1, "rules" # "request_pin" DEF EnoughKnown
<1>5. CASE pc' = "request_pin"
  <2>1. PICK rule \in Stored(rules) : /\ Applies(rule, trunk, Req) /\ rule # None
                                      /\ rule.pin # None /\ pin = None /\ asked' = rule
    BY Zenon, <1>5, Evaluates
  <2>2. PinFits(rule, Req) /\ Req.pin = pin /\ Req.no_pin = noPin
    BY Zenon, <2>1 DEF Applies, Req
  <2>3. noPin = FALSE
    BY Zenon, <1>2, <2>1, <2>2 DEF PinFits
  <2>4. Req = Ask
    BY Zenon, <2>1, <2>3 DEF Req, Ask
  <2>5. quiet => Resolves /\ Applies(rule, Resolved, Ask)
    BY Zenon, <1>3, <2>1, <2>4
  <2> QED
    BY Zenon, <1>1, <1>2, <1>5, <2>1, <2>5 DEF EnoughKnown, PinIsEnough, Answered, Asked
<1>6. CASE pc' # "request_pin"
  <2>1. asked' = asked /\ pc' \in {"accept", "drop", "error", "panic"}
    BY Zenon, <1>6, Evaluates
  <2>2. ASSUME asked # None, pin = asked.pin, quiet
        PROVE  pc' = "accept" \/ (pc' = "panic" /\ call.from = None)
    <3>1. asked \in Stored(rules) /\ asked.pin # None /\ Applies(asked, trunk, Ask)
      BY Zenon, <1>3, <2>2 DEF EnoughKnown
    <3>2. pin # None /\ noPin = FALSE
      BY Zenon, <1>2, <2>2, <3>1
    <3>3. Applies(asked, trunk, Req)
      BY Zenon, <2>2, <3>1, <3>2, AskedApplies
    <3>4. \A r : Applies(r, trunk, Req) => r.pin = pin
      <4>1. Req.pin = pin /\ Req.no_pin = noPin
        BY Zenon DEF Req
      <4> QED
        BY <3>2, <4>1 DEF Applies, PinFits
    <3> QED
      BY Zenon, <1>1, <1>6, <3>1, <3>3, <3>4, Evaluates
  <2>3. /\ asked' # None => pc' \in Asked /\ (pin' # None \/ noPin')
        /\ pc' # "list" /\ pc' # "rules"
    BY Zenon, <1>1, <1>4, <2>1 DEF Asked
  <2>4. quiet' /\ asked' # None =>
          /\ Resolves' /\ asked' \in Stored(rules)' /\ asked'.pin # None
          /\ Applies(asked', Resolved', Ask')
    BY Zenon, <1>1, <1>2, <2>1 DEF EnoughKnown
  <2>5. PinIsEnough'
    BY Zenon, <1>1, <2>1, <2>2 DEF PinIsEnough
  <2> QED
    BY Zenon, <2>3, <2>4, <2>5 DEF EnoughKnown
<1> QED
  BY Zenon, <1>5, <1>6

\* Every step, of the questions and of whoever writes meanwhile.
LEMMA EnoughStep ==
    ASSUME HashesKnown, PinKnown, EnoughKnown, [SipNext]_sipVars
    PROVE  EnoughKnown'
<1>1. CASE get_sip_trunk_authentication
  <2>1. pc = "ringing" /\ pc' \in {"error", "dispatch"} /\ asked' = asked
    BY Zenon, <1>1 DEF get_sip_trunk_authentication
  <2>2. asked' = None
    BY Zenon, <2>1 DEF EnoughKnown, Asked
  <2> QED
    BY Zenon, <2>1, <2>2 DEF EnoughKnown, PinIsEnough
<1>2. CASE LoadNamedTrunk
  <2>1. /\ pc = "dispatch" /\ UNCHANGED <<hashes, call, trunkId, pin, noPin, asked>>
        /\ trunk' = IF Fits THEN Named ELSE None
        /\ pc' = IF Fits THEN "rules" ELSE "list"
        /\ quiet' = IF pin = None /\ ~noPin THEN TRUE ELSE quiet
    BY Zenon, <1>2 DEF LoadNamedTrunk, Fits, Named
  <2>2. UNCHANGED <<Fits, Resolved, Resolves, Ask, Stored(rules)>>
    BY Zenon, <2>1, ResolvedKept DEF hashes, Stored
  <2>3. asked # None => quiet' = quiet /\ (pin # None \/ noPin)
    BY Zenon, <2>1 DEF EnoughKnown
  <2>4. /\ pc' = "list" => ~Fits
        /\ pc' = "rules" => trunk' = Resolved /\ Resolves
        /\ pc' \in Asked /\ ~Answered'
    BY Zenon, <2>1 DEF Resolved, Resolves, Asked, Answered
  <2> QED
    BY Zenon, <2>1, <2>2, <2>3, <2>4 DEF EnoughKnown, PinIsEnough
<1>3. CASE MatchTrunks
  <2> DEFINE t == TrunkOf(Inbound, call)
  <2>1. /\ pc = "list" /\ UNCHANGED <<hashes, call, trunkId, pin, noPin, asked, quiet>>
        /\ trunk' = IF t = Err THEN None ELSE t
        /\ pc' = IF t = Err THEN "error" ELSE "rules"
    BY Zenon, <1>3, MatchesOnStored DEF MatchTrunks
  <2>2. UNCHANGED <<Fits, Resolved, Resolves, Ask, Stored(rules)>>
    BY Zenon, <2>1, ResolvedKept DEF hashes, Stored
  <2>3. quiet => ~Fits /\ Resolved = t /\ (Resolves <=> t # Err)
    BY Zenon, <2>1 DEF EnoughKnown, Resolved, Resolves
  <2> HIDE DEF t
  <2>4. /\ asked # None => pin # None \/ noPin
        /\ pc' \in Asked /\ pc' # "list"
        /\ pc' = "rules" => trunk' = t /\ t # Err
        /\ Answered' => t = Err
    BY Zenon, <2>1 DEF EnoughKnown, Asked, Answered
  <2>5. PinIsEnough'
    BY Zenon, <2>1, <2>3, <2>4 DEF EnoughKnown, PinIsEnough
  <2> QED
    BY Zenon, <2>1, <2>2, <2>3, <2>4, <2>5 DEF EnoughKnown
<1>4. CASE evaluate_sip_dispatch_rules
  BY Zenon, <1>4, EvaluateLetsIn
<1>5. CASE EnterPin
  <2>1. /\ pc = "request_pin" /\ pc' = "dispatch"
        /\ UNCHANGED <<hashes, call, trunkId, asked, quiet>>
        /\ pin' # None \/ noPin'
    BY Zenon, <1>5 DEF EnterPin
  <2>2. UNCHANGED <<Fits, Resolved, Resolves, Ask, Stored(rules)>>
    BY Zenon, <2>1, ResolvedKept DEF hashes, Stored
  <2>3. pc' \in Asked /\ pc' \notin {"list", "rules"} /\ ~Answered'
    BY Zenon, <2>1 DEF Asked, Answered
  <2> QED
    BY Zenon, <2>1, <2>2, <2>3 DEF EnoughKnown, PinIsEnough
<1>6. CASE Dial
  <2>1. /\ UNCHANGED <<hashes, inVars>>
        /\ \/ UNCHANGED <<pc, trunk>>
           \/ pc \notin Asked /\ pc' \notin {"list", "rules"}
    BY Zenon, <1>6 DEF Dial, CreateSIPParticipant, LoadOutboundTrunk,
       build_internal_create_participant, ParticipantJoins, RequestFails,
       TransferSIPParticipant, outVars, Asked
  <2>2. CASE UNCHANGED <<pc, trunk>>
    BY Zenon, <2>1, <2>2, EnoughKept DEF hashes, inVars, callVars
  <2>3. CASE pc \notin Asked /\ pc' \notin {"list", "rules"}
    BY Zenon, <2>1, <2>3 DEF EnoughKnown, PinIsEnough, inVars
  <2> QED
    BY Zenon, <2>1, <2>2, <2>3
<1>7. ASSUME NEW a \in Admins, Administer(a) PROVE EnoughKnown'
  <2>1. UNCHANGED callVars /\ (quiet' = FALSE \/ UNCHANGED <<hashes, quiet>>)
    BY Zenon, <1>7, AdministerKeeps
  <2>2. CASE quiet' = FALSE
    BY Zenon, <2>1, <2>2 DEF EnoughKnown, PinIsEnough, callVars
  <2>3. CASE UNCHANGED <<hashes, quiet>>
    BY Zenon, <2>1, <2>3, EnoughKept DEF hashes
  <2> QED
    BY Zenon, <2>1, <2>2, <2>3
<1>8. CASE UNCHANGED sipVars
  BY Zenon, <1>8, EnoughKept DEF sipVars, hashes
<1> QED
  BY Zenon, <1>1, <1>2, <1>3, <1>4, <1>5, <1>6, <1>7, <1>8 DEF SipNext, Answer

\* A caller that enters the PIN of the rule that asked for it is let in, unless a
\* trunk or a rule was written since, although the trunk and the rules are read and
\* matched all over again; only where the caller has no number, and a rule with the
\* same PIN hides it, does the evaluation panic.
THEOREM PinsAreEnough == SipSpec => []PinIsEnough
<1>1. SipInit => PinKnown /\ EnoughKnown
  BY Zenon DEF SipInit, PinKnown, PinProtects, Questions, EnoughKnown, PinIsEnough
<1>2. EnoughKnown => PinIsEnough
  BY Zenon DEF EnoughKnown
<1>3. HashesKnown /\ PinKnown /\ EnoughKnown /\ [SipNext]_sipVars => EnoughKnown'
  BY Zenon, EnoughStep
<1> QED
  BY <1>1, <1>2, <1>3, HashesInit, HashesStep, PinStep, PTL DEF SipSpec

-----------------------------------------------------------------------------
(* An outbound call *)

\* What is sent to the container was built from one trunk and for one call id, and
\* whoever joins for it, or is transferred, carries that id.
OutboundKnown ==
    /\ DOMAIN sip = {"room", "callID", "target"}
    /\ ireq # None =>
          /\ pc \in {"sent", "error", "dialled"}
          /\ ireq.sip_call_id = NewCall /\ ireq.attributes.callID = NewCall
    /\ sip.callID # None => ireq # None /\ sip.callID = NewCall
    /\ sip.target # None => ireq # None /\ sip.target = NewCall
    /\ OutboundIsOneCall

\* What is built for the number num.
LEMMA BuiltFromTrunk ==
    ASSUME NEW num \in Numbers
    PROVE  /\ InternalRequest(num).sip_call_id = NewCall
           /\ InternalRequest(num).attributes.callID = NewCall
           /\ trunk # None =>
                 /\ InternalRequest(num).address = trunk.address
                 /\ InternalRequest(num).settings = trunk.settings
                 /\ InternalRequest(num).picked \in trunk.numbers \cup {request.number}
<1>1. trunk # None => Source.address = trunk.address /\ Source.settings = trunk.settings
  BY Zenon DEF Source
<1>2. trunk # None => num \in trunk.numbers \cup {request.number}
  BY Zenon DEF Numbers
<1> QED
  BY Zenon, <1>1, <1>2 DEF InternalRequest, Attributes

\* Every step of the call, and of whoever writes meanwhile.
LEMMA OutboundStep == OutboundKnown /\ [SipNext]_sipVars => OutboundKnown'
<1> SUFFICES ASSUME OutboundKnown, [SipNext]_sipVars PROVE OutboundKnown'
  OBVIOUS
<1> USE DEF OutboundKnown, OutboundIsOneCall
<1>1. CASE CreateSIPParticipant
  BY Zenon, <1>1 DEF CreateSIPParticipant
<1>2. CASE LoadOutboundTrunk
  BY Zenon, <1>2 DEF LoadOutboundTrunk, outVars
<1>3. CASE build_internal_create_participant
  <2>1. /\ ireq = None /\ sip.callID = None /\ sip.target = None
        /\ UNCHANGED <<trunk, request, sip>>
    BY Zenon, <1>3 DEF build_internal_create_participant
  <2>2. \/ \E num \in Numbers : ireq' = InternalRequest(num) /\ pc' = "sent"
        \/ ireq' = None
    BY Zenon, <1>3 DEF build_internal_create_participant
  <2> QED
    BY Zenon, <2>1, <2>2, BuiltFromTrunk
<1>4. CASE ParticipantJoins
  <2>1. /\ ireq # None /\ sip' = [sip EXCEPT !.callID = ireq.attributes.callID]
        /\ pc' \in {"sent", "error", "dialled"} /\ UNCHANGED <<trunk, request, ireq>>
    BY Zenon, <1>4 DEF ParticipantJoins
  <2>2. /\ DOMAIN sip' = DOMAIN sip /\ sip'.callID = NewCall /\ sip'.target = sip.target
    BY Zenon, <2>1
  <2> QED
    BY Zenon, <2>1, <2>2
<1>5. CASE RequestFails
  BY Zenon, <1>5 DEF RequestFails, outVars
<1>6. CASE TransferSIPParticipant
  <2>1. /\ sip.callID # None /\ sip' = [sip EXCEPT !.target = sip.callID]
        /\ UNCHANGED <<pc, trunk, request, ireq>>
    BY Zenon, <1>6 DEF TransferSIPParticipant
  <2>2. /\ DOMAIN sip' = DOMAIN sip /\ sip'.callID = sip.callID /\ sip'.target = NewCall
    BY Zenon, <2>1
  <2> QED
    BY Zenon, <2>1, <2>2
<1>7. CASE Answer
  <2>1. /\ pc \in {"ringing", "dispatch", "list", "rules", "request_pin"}
        /\ UNCHANGED outVars
    BY Zenon, <1>7 DEF Answer, get_sip_trunk_authentication, LoadNamedTrunk, MatchTrunks,
       evaluate_sip_dispatch_rules, EnterPin
  <2>2. ireq = None
    BY Zenon, <2>1
  <2> QED
    BY Zenon, <2>1, <2>2 DEF outVars
<1>8. ASSUME NEW a \in Admins, Administer(a) PROVE OutboundKnown'
  BY Zenon, <1>8, AdministerKeeps DEF callVars, outVars
<1>9. CASE UNCHANGED sipVars
  BY Zenon, <1>9 DEF sipVars, callVars, outVars
<1> QED
  BY Zenon, <1>1, <1>2, <1>3, <1>4, <1>5, <1>6, <1>7, <1>8, <1>9 DEF SipNext, Dial

\* The address, the settings and the number of an outbound call are those of one
\* version of its trunk, whatever is written while it is built, and a transfer of
\* its participant goes to this call.
THEOREM OutboundCallsAreOne == SipSpec => []OutboundIsOneCall
<1>1. SipInit => OutboundKnown
  BY DEF SipInit, OutboundKnown, OutboundIsOneCall
<1>2. OutboundKnown => OutboundIsOneCall
  BY Zenon DEF OutboundKnown
<1> QED
  BY <1>1, <1>2, OutboundStep, PTL DEF SipSpec

=============================================================================
