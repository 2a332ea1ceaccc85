-------------------------- MODULE CommissioningProofs --------------------------
(***************************************************************************)
(* The commissioning programs, for any number of devices and any           *)
(* configuration: no address is programmed that a device holds, and no     *)
(* scan takes the address of a device whose addresses are its own.         *)
(***************************************************************************)
EXTENDS MCCommissioning, FiniteSetTheorems, NaturalsInduction, WellFoundedInduction, TLAPS

-----------------------------------------------------------------------------
(* The inductive invariant *)

\* Every condition the gear can be in.
Gears == [Device -> [short : Short \cup {MASK, Invalid}, rand : Random,
                     state : {"disabled", "enabled", "withdrawn"}, obeys : BOOLEAN]]
\* The variables of a program.
Fields == {"mode", "pc", "old", "present", "known", "reroll", "polled", "found", "avail",
           "conflicts", "answers", "low", "last", "failed", "pass", "dropped", "outcome"}
\* A program in this step goes by what it saw when it polled the addresses.
Polled == {"read", "reroll", "join"}

\* Until the program ends, nobody holds an address that is available; before
\* the available ones are computed, every held address is known to be present.
AddressInv ==
    /\ bus \in Gears
    /\ DOMAIN run = Fields
    /\ run.avail \subseteq Short
    /\ run.pc \in Polled => \A s \in Short : HeldBy(s) # {} => s \in run.present
    /\ run.pc # "over" => \A s \in run.avail : HeldBy(s) = {}

\* The step NewAddressIsFree speaks of.
FreeStep ==
    \A d \in Device : bus'[d].short \in Short /\ bus'[d].short # bus[d].short
                        => HeldBy(bus'[d].short) = {}

-----------------------------------------------------------------------------
(* The gear *)

\* c is b, but for random addresses and the state of the search.
SameShorts(b, c) == c \in Gears /\ \A d \in Device : c[d].short = b[d].short

\* TERMINATE and INITIALISE leave the short addresses alone.
LEMMA InitialisedShorts ==
  ASSUME NEW b \in Gears, NEW ds
  PROVE  SameShorts(b, Initialised(b, ds))
  BY DEF Gears, Initialised, SameShorts

LEMMA TerminatedShorts ==
  ASSUME NEW b \in Gears
  PROVE  SameShorts(b, Terminated(b))
  BY InitialisedShorts DEF Terminated

\* WITHDRAW does, too.
LEMMA WithdrawnShorts ==
  ASSUME NEW b \in Gears, NEW as
  PROVE  SameShorts(b, Withdrawn(b, as))
  BY DEF Gears, Withdrawn, SameShorts

\* And so does RANDOMISE.
LEMMA RerolledShorts ==
  ASSUME NEW b \in Gears, NEW ds, NEW c \in Rerolls(b, ds)
  PROVE  SameShorts(b, c)
<1>1. PICK f : /\ \A d \in ds : f[d] \in Random
               /\ c = [d \in Device |-> IF d \in ds THEN [b[d] EXCEPT !.rand = f[d]] ELSE b[d]]
  BY DEF Rerolls
<1> QED BY <1>1 DEF Gears, SameShorts

\* PROGRAM SHORT ADDRESS gives the address to some, and leaves the others alone.
LEMMA ProgrammedShorts ==
  ASSUME NEW b \in Gears, NEW a, NEW s \in Short \cup {MASK}
  PROVE  /\ Programmed(b, a, s) \in Gears
         /\ \A d \in Device : Programmed(b, a, s)[d].short \in {s, b[d].short}
  BY DEF Gears, Programmed

LEMMA SameTwice ==
  ASSUME NEW a, NEW b, NEW c, SameShorts(a, b), SameShorts(b, c)
  PROVE  SameShorts(a, c)
  BY DEF SameShorts

-----------------------------------------------------------------------------
(* The variables of a program *)

LEMMA RestIs ==
  ASSUME NEW r, DOMAIN r = Fields
  PROVE  /\ DOMAIN Rest(r) = Fields
         /\ Rest(r).pc \in {"search", "process"}
         /\ Rest(r).avail = r.avail
  BY DEF Rest, Fields

LEMMA RecordIs ==
  ASSUME NEW r, DOMAIN r = Fields, NEW s, NEW a
  PROVE  /\ DOMAIN Record(r, s, a) = Fields
         /\ Record(r, s, a).pc = r.pc
         /\ Record(r, s, a).avail = r.avail
  BY DEF Record, Fields

LEMMA ConflictIs ==
  ASSUME DOMAIN run = Fields, NEW s
  PROVE  /\ DOMAIN Conflict(s) = Fields
         /\ Conflict(s).avail = run.avail
  BY DEF Conflict, Fields

\* The least of a set of short addresses is one of them.
LEMMA LeastIsOne ==
  ASSUME NEW T, T \subseteq Short, T # {}
  PROVE  Min(T) \in T
<1> DEFINE R == {p \in Nat \X Nat : p[1] < p[2]}
<1>1. IsWellFoundedOn(R, Nat)
  BY NatLessThanWellFounded DEF OpToRel
<1>2. T \subseteq Nat
  BY CommissioningAssumption DEF Short
<1>3. \E n \in T : \A m \in T : ~(<<m, n>> \in R)
  BY <1>1, <1>2, WFMin
<1>4. \A m, n \in Nat : (<<m, n>> \in R) <=> m < n
  OBVIOUS
<1> HIDE DEF R
<1>5. \E n \in T : \A m \in T : ~(m < n)
  BY <1>2, <1>3, <1>4
<1>6. \E n \in T : \A m \in T : n <= m
  BY <1>2, <1>5
<1> QED BY <1>6 DEF Min

\* A picked address was available, and is no more.
LEMMA PickedIs ==
  ASSUME NEW a, run.avail \subseteq Short, run.avail # {}
  PROVE  /\ PickNewShort(a)[1] \in run.avail
         /\ PickNewShort(a)[2] = run.avail \ {PickNewShort(a)[1]}
<1> DEFINE stored == {s \in DOMAIN run.old : run.old[s] = a} \cap run.avail
           from == IF stored # {} /\ run.mode = "extend" THEN stored ELSE run.avail
<1>1. from \subseteq run.avail /\ from # {}
  OBVIOUS
<1> HIDE DEF from
<1>2. Min(from) \in run.avail
  BY <1>1, LeastIsOne
<1>3. PickNewShort(a) = <<Min(from), run.avail \ {Min(from)}>>
  BY DEF PickNewShort, from
<1> QED BY <1>2, <1>3

\* Polling that loses no answer sees every address that is held.
LEMMA PolledIs ==
  ASSUME "present" \notin Lossy, NEW missed, QueryPresent(missed)
  PROVE  \A s \in Short : HeldBy(s) # {} => s \in Present(missed)
<1>1. missed \subseteq Short /\ Lose([present |-> Cardinality(missed)])
  BY DEF QueryPresent
<1>2. IsFiniteSet(Short)
  BY FS_Interval, CommissioningAssumption DEF Short
<1>3. IsFiniteSet(missed) /\ Cardinality(missed) \in Nat
  BY <1>1, <1>2, FS_Subset, FS_CardinalityType
<1>4. ~(Cardinality(missed) > 0)
  <2> DEFINE c == [present |-> Cardinality(missed)]
  <2>1. "present" \in DOMAIN c /\ c["present"] = Cardinality(missed)
    OBVIOUS
  <2>2. \A k \in DOMAIN c : c[k] > 0 => k \in Lossy
    BY <1>1 DEF Lose
  <2> QED BY <2>1, <2>2
<1>5. missed = {}
  BY <1>3, <1>4, FS_EmptySet
<1> QED BY <1>5 DEF Present

-----------------------------------------------------------------------------
(* The steps *)

\* A step that leaves the short addresses alone, makes no address available and
\* does not go back to polling.
LEMMA KeepingStep ==
  ASSUME AddressInv, run.pc # "over", SameShorts(bus, bus'), DOMAIN run' = Fields,
         run'.avail = run.avail,
         run'.pc \in Polled => run.pc \in Polled /\ run'.present = run.present
  PROVE  AddressInv' /\ FreeStep
<1>1. \A s : HeldBy(s)' = HeldBy(s)
  BY DEF HeldBy, SameShorts
<1> QED BY <1>1 DEF AddressInv, FreeStep, SameShorts

\* A step that makes available what nobody was seen to hold.
LEMMA OfferingStep ==
  ASSUME AddressInv, SameShorts(bus, bus'), DOMAIN run' = Fields,
         NEW seen, \A s \in Short : HeldBy(s) # {} => s \in seen,
         run'.avail = Short \ seen, run'.pc \notin Polled
  PROVE  AddressInv' /\ FreeStep
<1>1. \A s : HeldBy(s)' = HeldBy(s)
  BY DEF HeldBy, SameShorts
<1> QED BY <1>1 DEF AddressInv, FreeStep, SameShorts

\* A program that ends.
LEMMA OverStep ==
  ASSUME AddressInv, NEW outcome, Over(bus, outcome)
  PROVE  AddressInv' /\ FreeStep
<1>1. SameShorts(bus, bus')
  BY TerminatedShorts DEF AddressInv, Over
<1>2. run' = [run EXCEPT !.pc = "over", !.outcome = outcome]
  BY DEF Over
<1>3. DOMAIN run' = Fields /\ run'.pc = "over" /\ run'.avail = run.avail
  BY <1>2 DEF AddressInv, Fields
<1> QED BY <1>1, <1>3 DEF AddressInv, FreeStep, SameShorts, Polled

LEMMA ResetStep ==
  ASSUME AddressInv, run.pc = "process", NEW a, ResetShort(a)
  PROVE  AddressInv' /\ FreeStep
<1>1. MASK \notin Short
  BY CommissioningAssumption DEF Short, MASK
<1>2. /\ bus' \in Gears
      /\ \A d \in Device : bus'[d].short \in {MASK, bus[d].short}
  BY ProgrammedShorts DEF AddressInv, ResetShort
<1>3. run' = Rest(Conflict(Unaddressed))
  BY DEF ResetShort
<1>4. /\ DOMAIN run' = Fields /\ run'.pc \in {"search", "process"}
      /\ run'.avail = run.avail
  BY <1>3, ConflictIs, RestIs DEF AddressInv
<1>5. \A s \in Short : HeldBy(s)' \subseteq HeldBy(s)
  BY <1>1, <1>2 DEF HeldBy
<1> QED BY <1>1, <1>2, <1>4, <1>5 DEF AddressInv, FreeStep, Polled

\* A device gets an address nobody holds, and the address is no longer available.
LEMMA AssignStep ==
  ASSUME AddressInv, run.pc # "over", NEW a, NEW away, NEW next,
         DOMAIN next = Fields, next.pc \in {"search", "process"}, AssignShort(a, away, next)
  PROVE  AddressInv' /\ FreeStep
<1>1. CASE run.avail = {}
  BY <1>1, OverStep DEF AssignShort
<1>2. CASE run.avail # {}
  <2> DEFINE s == PickNewShort(a)[1]
             left == PickNewShort(a)[2]
  <2>1. s \in run.avail /\ left = run.avail \ {s}
    BY <1>2, PickedIs DEF AddressInv
  <2> HIDE DEF s, left
  <2>2. s \in Short /\ HeldBy(s) = {}
    BY <2>1 DEF AddressInv
  <2>3. PICK taken \in BOOLEAN :
          LET after == IF taken THEN Programmed(bus, a, s) ELSE bus
          IN  \/ /\ bus' = Withdrawn(after, away)
                 /\ run' = Record([next EXCEPT !.avail = left], s, a)
              \/ Over(after, "aborted")
    BY <1>2 DEF AssignShort, s, left
  <2> DEFINE after == IF taken THEN Programmed(bus, a, s) ELSE bus
  <2>4. after \in Gears /\ \A d \in Device : after[d].short \in {s, bus[d].short}
    BY <2>2, ProgrammedShorts DEF AddressInv
  <2>5. \/ /\ bus' = Withdrawn(after, away)
           /\ run' = Record([next EXCEPT !.avail = left], s, a)
        \/ Over(after, "aborted")
    BY <2>3
  <2> HIDE DEF after
  <2>6. SameShorts(after, bus')
    BY <2>4, <2>5, WithdrawnShorts, TerminatedShorts DEF Over
  <2>7. bus' \in Gears /\ \A d \in Device : bus'[d].short \in {s, bus[d].short}
    BY <2>4, <2>6 DEF SameShorts
  <2>8. FreeStep
    BY <2>2, <2>7 DEF FreeStep
  <2>9. \A t \in Short : t # s => HeldBy(t)' \subseteq HeldBy(t)
    BY <2>7 DEF HeldBy
  <2>10. CASE run' = Record([next EXCEPT !.avail = left], s, a)
    <3> DEFINE r == [next EXCEPT !.avail = left]
    <3>1. DOMAIN r = Fields /\ r.avail = left /\ r.pc = next.pc
      BY DEF Fields
    <3>2. run' = Record(r, s, a)
      BY <2>10 DEF r
    <3> HIDE DEF r
    <3>3. DOMAIN run' = Fields /\ run'.avail = left /\ run'.pc \in {"search", "process"}
      BY <3>1, <3>2, RecordIs
    <3> QED BY <2>1, <2>7, <2>8, <2>9, <3>3 DEF AddressInv, Polled
  <2>11. CASE Over(after, "aborted")
    <3>1. run' = [run EXCEPT !.pc = "over", !.outcome = "aborted"]
      BY <2>11 DEF Over
    <3>2. DOMAIN run' = Fields /\ run'.pc = "over" /\ run'.avail = run.avail
      BY <3>1 DEF AddressInv, Fields
    <3> QED BY <2>7, <2>8, <3>2 DEF AddressInv, Polled
  <2> QED BY <2>5, <2>10, <2>11
<1> QED BY <1>1, <1>2

\* Devices that keep what they have.
LEMMA KeepStep ==
  ASSUME AddressInv, run.pc = "process", NEW r, DOMAIN r = Fields, r.avail = run.avail, KeepAs(r)
  PROVE  AddressInv' /\ FreeStep
<1>1. run' = Rest(r) /\ bus' = bus
  BY DEF KeepAs
<1>2. DOMAIN run' = Fields /\ run'.avail = run.avail /\ run'.pc \in {"search", "process"}
  BY <1>1, RestIs
<1>3. SameShorts(bus, bus')
  BY <1>1 DEF SameShorts, AddressInv
<1> QED BY <1>2, <1>3, KeepingStep DEF Polled


\* Which steps touch the short addresses, and what each makes available.
LEMMA NextStep ==
  ASSUME "present" \notin Lossy, AddressInv, Next
  PROVE  AddressInv' /\ FreeStep
<1> USE DEF AddressInv
<1>f. "pc" \in Fields /\ "avail" \in Fields /\ "present" \in Fields /\ DOMAIN run = Fields
  BY DEF Fields
<1>1. CASE PollPresent
  <2>1. PICK missed \in SUBSET Short :
          QueryPresent(missed) /\ run' = [run EXCEPT !.pc = "read", !.present = Present(missed)]
    BY <1>1 DEF PollPresent
  <2>2. /\ DOMAIN run' = Fields /\ run'.pc = "read"
        /\ run'.present = Present(missed) /\ run'.avail = run.avail
    BY <2>1, <1>f
  <2>3. bus' = bus /\ run.pc = "poll" /\ \A s : HeldBy(s)' = HeldBy(s)
    BY <1>1 DEF PollPresent, HeldBy
  <2>4. \A s \in Short : HeldBy(s)' # {} => s \in run'.present
    BY <2>1, <2>2, <2>3, PolledIs
  <2> QED BY <2>2, <2>3, <2>4 DEF FreeStep
<1>2. CASE RandomiseEverything
  <2>1. PICK missed \in SUBSET Short :
          QueryPresent(missed) /\ run' = [run EXCEPT !.pc = "search", !.avail = Short \ Present(missed)]
    BY <1>2 DEF RandomiseEverything
  <2>2. DOMAIN run' = Fields /\ run'.pc = "search" /\ run'.avail = Short \ Present(missed)
    BY <2>1, <1>f
  <2>3. SameShorts(bus, bus')
    BY <1>2, InitialisedShorts, RerolledShorts, SameTwice DEF RandomiseEverything, SameShorts
  <2>4. \A s \in Short : HeldBy(s) # {} => s \in Present(missed)
    BY <2>1, PolledIs
  <2> QED BY <2>2, <2>3, <2>4, OfferingStep DEF Polled
<1>3. CASE StartList
  <2>1. run' = [run EXCEPT !.pc = "search"] /\ run.pc = "poll"
    BY <1>3 DEF StartList
  <2>2. DOMAIN run' = Fields /\ run'.pc = "search" /\ run'.avail = run.avail
    BY <2>1, <1>f
  <2>3. SameShorts(bus, bus')
    BY <1>3, InitialisedShorts DEF StartList
  <2> QED BY <2>1, <2>2, <2>3, KeepingStep DEF Polled
<1>4. CASE PollRandoms
  <2>1. /\ DOMAIN run' = Fields /\ run'.avail = run.avail /\ run'.present = run.present
        /\ run.pc = "read"
    BY <1>4, <1>f DEF PollRandoms
  <2>2. SameShorts(bus, bus')
    BY <1>4 DEF PollRandoms, SameShorts
  <2> QED BY <2>1, <2>2, KeepingStep DEF Polled
<1>5. CASE RandomiseDoubtful
  <2>1. /\ DOMAIN run' = Fields /\ run'.avail = run.avail /\ run'.present = run.present
        /\ run.pc = "reroll"
    BY <1>5, <1>f DEF RandomiseDoubtful
  <2>2. SameShorts(bus, bus')
    BY <1>5, InitialisedShorts, RerolledShorts, SameTwice DEF RandomiseDoubtful, SameShorts
  <2> QED BY <2>1, <2>2, KeepingStep DEF Polled
<1>6. CASE JoinAndWithdrawKnown
  <2> DEFINE all == Initialised(bus, Device)
  <2>1. PICK as : bus' = Withdrawn(all, as)
    BY <1>6 DEF JoinAndWithdrawKnown
  <2>2. SameShorts(bus, all)
    BY InitialisedShorts
  <2> HIDE DEF all
  <2>3. SameShorts(bus, bus')
    BY <2>1, <2>2, WithdrawnShorts, SameTwice DEF SameShorts
  <2>4. PICK known, answers :
          run' = [run EXCEPT !.polled = Range(run.known), !.known = known,
                             !.avail = Short \ run.present, !.answers = answers,
                             !.pc = IF known = <<>> THEN "search" ELSE "process"]
    BY <1>6 DEF JoinAndWithdrawKnown
  <2>5. /\ DOMAIN run' = Fields /\ run'.avail = Short \ run.present
        /\ run'.pc \in {"search", "process"}
    BY <2>4, <1>f
  <2>6. \A s \in Short : HeldBy(s) # {} => s \in run.present
    BY <1>6 DEF JoinAndWithdrawKnown, Polled
  <2> QED BY <2>3, <2>5, <2>6, OfferingStep DEF Polled
<1>7. CASE ProcessFoundDevice
  <2>1. run.pc = "process"
    BY <1>7 DEF ProcessFoundDevice
  <2> DEFINE a == Answered[1]
             s == Answered[2]
  <2>2. \/ KeepAs(run) \/ KeepAs(Conflict(Unaddressed)) \/ KeepAs(Conflict(s))
        \/ KeepAs(Record(run, s, a))
        \/ KeepAs(Record(Conflict(Unaddressed), Max(Confirmed(a)), a))
        \/ ResetShort(a) \/ AssignShort(a, {}, Rest(run))
    BY <1>7 DEF ProcessFoundDevice
  <2> HIDE DEF a, s
  <2>3. CASE KeepAs(run)
    BY <2>1, <2>3, KeepStep
  <2>4. CASE KeepAs(Conflict(Unaddressed)) \/ KeepAs(Conflict(s))
    BY <2>1, <2>4, KeepStep, ConflictIs
  <2>5. CASE KeepAs(Record(run, s, a))
    BY <2>1, <2>5, KeepStep, RecordIs
  <2>6. CASE KeepAs(Record(Conflict(Unaddressed), Max(Confirmed(a)), a))
    BY <2>1, <2>6, KeepStep, RecordIs, ConflictIs
  <2>7. CASE ResetShort(a)
    BY <2>1, <2>7, ResetStep
  <2>8. CASE AssignShort(a, {}, Rest(run))
    BY <2>1, <2>8, AssignStep, RestIs
  <2> QED BY <2>2, <2>3, <2>4, <2>5, <2>6, <2>7, <2>8
<1>8. CASE Search
  <2>1. run.pc = "search"
    BY <1>8 DEF Search
  <2>2. PICK a :
          \/ run' = [run EXCEPT !.pc = "pass"] /\ UNCHANGED bus
          \/ Over(bus, "aborted")
          \/ run' = [run EXCEPT !.failed = @ + 1] /\ UNCHANGED bus
          \/ /\ run' = [run EXCEPT !.pc = "found", !.last = a,
                                   !.failed = IF Fails(a) THEN @ + 1 ELSE 0]
             /\ UNCHANGED bus
    BY <1>8 DEF Search
  <2>3. CASE Over(bus, "aborted")
    BY <2>3, OverStep
  <2>4. CASE UNCHANGED bus /\ ~Over(bus, "aborted")
    <3>1. DOMAIN run' = Fields /\ run'.avail = run.avail /\ run'.pc \notin Polled
      BY <2>1, <2>2, <2>4, <1>f DEF Polled
    <3>2. SameShorts(bus, bus')
      BY <2>4 DEF SameShorts
    <3> QED BY <2>1, <3>1, <3>2, KeepingStep
  <2> QED BY <2>2, <2>3, <2>4
<1>9. CASE SearchExhausted
  <2>1. /\ DOMAIN run' = Fields /\ run'.avail = run.avail /\ run'.pc = "pass"
        /\ run.pc = "search"
    BY <1>9, <1>f DEF SearchExhausted
  <2>2. SameShorts(bus, bus')
    BY <1>9 DEF SearchExhausted, SameShorts
  <2> QED BY <2>1, <2>2, KeepingStep DEF Polled
<1>10. CASE QueryAndWithdraw
  <2>1. /\ DOMAIN run' = Fields /\ run'.avail = run.avail
        /\ run'.pc \in {"process", "search"} /\ run.pc = "found"
    BY <1>10, <1>f DEF QueryAndWithdraw
  <2>2. SameShorts(bus, bus')
    BY <1>10, WithdrawnShorts DEF QueryAndWithdraw, SameShorts
  <2> QED BY <2>1, <2>2, KeepingStep DEF Polled
<1>11. CASE AddressFoundGear
  <2> DEFINE next == [run EXCEPT !.pc = "search", !.low = run.last]
  <2>1. run.pc = "found"
    BY <1>11 DEF AddressFoundGear
  <2>2. DOMAIN next = Fields /\ next.pc = "search" /\ next.avail = run.avail
    BY <1>f
  <2>3. PICK s : \/ /\ bus' = Withdrawn(bus, {run.last})
                    /\ run' = Record([next EXCEPT !.avail = @ \ {s}], s, run.last)
                 \/ AssignShort(run.last, {run.last}, next)
    BY <1>11 DEF AddressFoundGear
  <2> HIDE DEF next
  <2>4. CASE AssignShort(run.last, {run.last}, next)
    BY <2>1, <2>2, <2>4, AssignStep
  <2>5. CASE /\ bus' = Withdrawn(bus, {run.last})
             /\ run' = Record([next EXCEPT !.avail = @ \ {s}], s, run.last)
    <3> DEFINE r == [next EXCEPT !.avail = @ \ {s}]
    <3>1. DOMAIN r = Fields /\ r.pc = "search" /\ r.avail = run.avail \ {s}
      BY <2>2, <1>f
    <3>2. run' = Record(r, s, run.last)
      BY <2>5
    <3> HIDE DEF r
    <3>3. DOMAIN run' = Fields /\ run'.pc = "search" /\ run'.avail = run.avail \ {s}
      BY <3>1, <3>2, RecordIs
    <3>4. SameShorts(bus, bus')
      BY <2>5, WithdrawnShorts
    <3>5. \A t : HeldBy(t)' = HeldBy(t)
      BY <3>4 DEF HeldBy, SameShorts
    <3> QED BY <2>1, <3>3, <3>4, <3>5 DEF FreeStep, SameShorts, Polled
  <2> QED BY <2>3, <2>4, <2>5
<1>12. CASE NextPass
  <2>1. /\ DOMAIN run' = Fields /\ run'.avail = run.avail /\ run'.pc = "search"
        /\ run.pc = "pass"
    BY <1>12, <1>f DEF NextPass
  <2>2. SameShorts(bus, bus')
    BY <1>12, InitialisedShorts, RerolledShorts, SameTwice DEF NextPass, SameShorts
  <2> QED BY <2>1, <2>2, KeepingStep DEF Polled
<1>13. CASE Finish
  <2>1. DOMAIN run' = Fields /\ run'.pc = "over" /\ run'.avail = run.avail /\ run.pc = "pass"
    BY <1>13, <1>f DEF Finish
  <2>2. SameShorts(bus, bus')
    BY <1>13, TerminatedShorts DEF Finish
  <2> QED BY <2>1, <2>2, KeepingStep DEF Polled
<1> QED
  BY <1>1, <1>2, <1>3, <1>4, <1>5, <1>6, <1>7, <1>8, <1>9, <1>10, <1>11, <1>12, <1>13 DEF Next

\* An address is programmed only when nobody on the bus holds it, while no
\* answer to the poll of the present addresses is lost: a device that was not
\* heard there may hold an address the programs take for free
\* (_get_present_short_addresses, _pick_new_short_address).
THEOREM AddressIsFree ==
  ASSUME "present" \notin Lossy
  PROVE  Spec => NewAddressIsFree
<1>1. Init => AddressInv
  <2> SUFFICES ASSUME Init PROVE AddressInv
    OBVIOUS
  <2>1. bus \in Gears
    BY DEF Init, Gear, Gears
  <2>2. PICK mode, old : run = InitRun(mode, old)
    BY DEF Init
  <2>3. DOMAIN run = Fields /\ run.avail = {} /\ run.pc = "poll"
    BY <2>2 DEF InitRun, Fields
  <2> QED BY <2>1, <2>3 DEF AddressInv, Polled
<1>2. AddressInv /\ [Next]_vars => AddressInv' /\ FreeStep
  <2> SUFFICES ASSUME AddressInv, [Next]_vars PROVE AddressInv' /\ FreeStep
    OBVIOUS
  <2>1. CASE UNCHANGED vars
    BY <2>1 DEF vars, AddressInv, HeldBy, FreeStep
  <2> QED BY <2>1, NextStep
<1>3. FreeStep <=> \A d \in Device : bus'[d].short \in Short /\ bus'[d].short # bus[d].short
                                       => HeldBy(bus'[d].short) = {}
  BY DEF FreeStep
<1> QED BY <1>1, <1>2, <1>3, PTL DEF Spec, NewAddressIsFree

-----------------------------------------------------------------------------
(* What a scan knows of the gear.  The rest of the module shows that a scan   *)
(* writes to the devices that answer at one random address, and that these    *)
(* are never a device alone with both its addresses.                          *)

Active(d) == bus[d].state # "disabled"
\* Nobody else has its random address.
Single(d) == \A e \in Device \ {d} : bus[e].rand # bus[d].rand
\* Whoever holds s has the random address a.
HeldWith(s, a) == \A d \in HeldBy(s) : bus[d].rand = a

\* What was stored, with one random address for each short address.
OldInv ==
    /\ DOMAIN run.old \subseteq Short /\ IsInjective(run.old)
    /\ \A s \in DOMAIN run.old : run.old[s] # UNSET

\* The pairs q read at the addresses on the bus: each address is held, all its
\* holders have the random address read there, and no two pairs have the same.
ReadAs(q) ==
    /\ q \in Seq(Range(q))
    /\ \A i \in DOMAIN q :
          /\ q[i][1] \in Short /\ q[i][2] # UNSET
          /\ HeldBy(q[i][1]) # {} /\ HeldWith(q[i][1], q[i][2])
    /\ \A i, j \in DOMAIN q : q[i][2] = q[j][2] => i = j
\* Before the devices join, nothing was recorded, and what is known was read.
StartInv ==
    run.pc \in {"poll"} \cup Polled =>
        /\ DOMAIN run.found = {} /\ run.conflicts = {} /\ run.polled = {} /\ run.avail = {}
        /\ run.present \subseteq Short
        /\ run.pc \in {"reroll", "join"} => ReadAs(run.known)
        /\ run.pc = "reroll" =>
              /\ run.reroll \subseteq Short
              /\ \A i \in DOMAIN run.known : run.known[i][1] \notin run.reroll

\* What was read at an address still holds, and the address is nobody else's.
PolledInv ==
    \A p \in run.polled :
        /\ p[1] \in Short \ (run.avail \cup run.conflicts)
        /\ p[2] # UNSET /\ HeldWith(p[1], p[2])

\* Either everyone takes part, or only devices that share no random address.
ActiveInv ==
    run.pc \in {"process", "search", "found", "pass"} =>
        \/ \A d \in Device : Active(d)
        \/ \A d \in Device : Active(d) => Single(d)

\* The answer p[2] at the random address p[1] is what the devices hold there.
AnswerHolds(p) ==
    /\ p[2] \notin {Silence, FramingError} =>
          /\ Answering(bus, p[1]) # {}
          /\ \A d \in Answering(bus, p[1]) : bus[d].short = p[2]
    /\ p[2] = FramingError => \E d, e \in Answering(bus, p[1]) : d # e
\* The answers left to be processed are still right, whatever was written on
\* account of the ones before.
AnswersInv ==
    run.pc = "process" =>
        /\ run.answers # <<>> /\ run.answers \in Seq(Range(run.answers))
        /\ \A i \in DOMAIN run.answers :
              /\ AnswerHolds(run.answers[i])
              /\ run.answers[i][1] = UNSET => Len(run.answers) = 1 /\ run.low = UNSET
        /\ \A i, j \in DOMAIN run.answers : run.answers[i][1] = run.answers[j][1] => i = j

\* An address put off was not recorded, and nothing is found after it was.
ConflictInv ==
    /\ \A s \in run.conflicts : s \notin DOMAIN run.found /\ s \notin run.avail
    /\ run.conflicts \cap Short # {} => run.pc = "pass" \/ (run.pc = "search" /\ run.low = UNSET)

\* A recorded address is held with the random address recorded for it, or one
\* of its holders has that random address for itself.
FoundInv ==
    \A s \in DOMAIN run.found :
        /\ s \in Short \ run.avail /\ run.found[s] # UNSET
        /\ HeldWith(s, run.found[s])
           \/ \E d \in HeldBy(s) : Single(d) /\ bus[d].rand = run.found[s]

\* Devices alike in both addresses are at an address the scan recorded.
TwinInv ==
    \A d, e \in Device :
        d # e /\ bus[d].rand = bus[e].rand /\ bus[d].rand # UNSET /\ bus[d].short = bus[e].short
              /\ bus[d].short \in Short
            => bus[d].short \in DOMAIN run.found

ScanInv == /\ OldInv /\ StartInv /\ PolledInv /\ ActiveInv
           /\ AnswersInv /\ ConflictInv /\ FoundInv /\ TwinInv
KeepInv == run.mode = "extend" /\ run.pc # "over" => ScanInv

\* The step SettledKeepAddress speaks of.
SettledStep == \A d \in Device : Settled(d) => bus'[d].short = bus[d].short

-----------------------------------------------------------------------------
(* Sequences of pairs *)

\* The numbers of a set of short addresses can be put in order, by the number
\* of those below each of them.
LEMMA AscendingIs ==
  ASSUME NEW S \in SUBSET Short
  PROVE  /\ Cardinality(S) \in Nat
         /\ Ascending(S) \in [1..Cardinality(S) -> S]
         /\ \A i, j \in 1..Cardinality(S) : i < j => Ascending(S)[i] < Ascending(S)[j]
<1> DEFINE n == Cardinality(S)
           below(s) == {t \in S : t < s}
           rank == [s \in S |-> Cardinality(below(s)) + 1]
           Ordered(g) == \A i, j \in 1..n : i < j => g[i] < g[j]
<1>1. S \subseteq Nat /\ IsFiniteSet(S) /\ n \in Nat
  <2>1. IsFiniteSet(Short) /\ Short \subseteq Nat
    BY FS_Interval, CommissioningAssumption DEF Short
  <2> QED BY <2>1, FS_Subset, FS_CardinalityType
<1>2. \A s \in S : Cardinality(below(s)) \in 0..(n - 1)
  <2> TAKE s \in S
  <2>1. below(s) \in SUBSET S /\ s \notin below(s)
    BY <1>1
  <2>2. IsFiniteSet(below(s)) /\ Cardinality(below(s)) <= n /\ Cardinality(below(s)) # n
    BY <1>1, <2>1, FS_Subset
  <2>3. Cardinality(below(s)) \in Nat
    BY <2>2, FS_CardinalityType
  <2> QED BY <1>1, <2>2, <2>3
<1>3. ASSUME NEW s \in S, NEW t \in S, s < t
      PROVE  rank[s] < rank[t]
  <2>0. s \in Nat /\ t \in Nat /\ s < t /\ \A r \in S : r \in Nat
    BY <1>1, <1>3
  <2>1. below(s) \subseteq below(t) /\ s \in below(t) /\ s \notin below(s)
    <3>1. s \in S /\ \A r \in S : r < s => r < t
      BY <1>3, <2>0
    <3>2. ~(s < s)
      BY <2>0
    <3> QED BY <2>0, <3>1, <3>2
  <2>2. IsFiniteSet(below(t))
    BY <1>1, FS_Subset
  <2>3. Cardinality(below(s)) <= Cardinality(below(t)) /\ Cardinality(below(s)) # Cardinality(below(t))
    BY <2>1, <2>2, FS_Subset
  <2>4. Cardinality(below(s)) < Cardinality(below(t))
    BY <1>1, <1>2, <2>3
  <2> QED BY <1>1, <1>2, <2>4
<1>4. rank \in [S -> 1..n]
  BY <1>1, <1>2
<1>5. \A s \in S : rank[s] \in Nat
  BY <1>4
<1> HIDE DEF n, rank
<1>6. rank \in Injection(S, 1..n)
  <2>1. \A s, t \in S : rank[s] = rank[t] => s = t
    BY <1>1, <1>3, <1>5
  <2> QED BY <1>4, <2>1 DEF Injection, IsInjective
<1>7. rank \in Surjection(S, 1..n)
  <2>1. IsFiniteSet(1..n) /\ Cardinality(1..n) = n
    BY <1>1, FS_Interval
  <2> QED BY <1>6, <2>1, FS_Injection DEF n
<1> DEFINE g == [i \in 1..n |-> CHOOSE s \in S : rank[s] = i]
<1>8. g \in [1..n -> S] /\ \A i \in 1..n : rank[g[i]] = i
  BY <1>7 DEF Surjection
<1> HIDE DEF g
<1>9. Ordered(g)
  <2> SUFFICES ASSUME NEW i \in 1..n, NEW j \in 1..n, i < j PROVE g[i] < g[j]
    OBVIOUS
  <2>1. g[i] \in S /\ g[j] \in S /\ rank[g[i]] = i /\ rank[g[j]] = j
    BY <1>8
  <2>2. rank[g[i]] < rank[g[j]] /\ i \in Nat /\ j \in Nat
    BY <1>1, <2>1
  <2>3. g[i] # g[j] /\ ~(g[j] < g[i])
    BY <1>3, <2>1, <2>2
  <2>4. g[i] \in Nat /\ g[j] \in Nat
    BY <1>1, <2>1
  <2> QED BY <2>3, <2>4
<1>10. Ascending(S) = CHOOSE h \in [1..n -> S] : Ordered(h)
  BY DEF Ascending, n
<1> HIDE DEF Ordered
<1>11. Ascending(S) \in [1..n -> S] /\ Ordered(Ascending(S))
  BY <1>8, <1>9, <1>10
<1> QED BY <1>1, <1>11 DEF n, Ordered

\* A list is a sequence over what stands in it.
LEMMA ListIs ==
  ASSUME NEW n \in Nat, NEW q, q = [i \in 1..n |-> q[i]]
  PROVE  q \in Seq(Range(q)) /\ Len(q) = n /\ DOMAIN q = 1..n
<1>1. DOMAIN q = 1..n
  OBVIOUS
<1>2. \A i \in 1..n : q[i] \in Range(q)
  BY <1>1 DEF Range
<1>3. q \in [1..n -> Range(q)]
  BY <1>2
<1> QED BY <1>1, <1>3

LEMMA ByShortIs ==
  ASSUME NEW f, DOMAIN f \subseteq Short
  PROVE  /\ ByShort(f) \in Seq(Range(ByShort(f)))
         /\ \A i \in DOMAIN ByShort(f) :
              /\ ByShort(f)[i][1] \in DOMAIN f /\ ByShort(f)[i][2] = f[ByShort(f)[i][1]]
         /\ \A i, j \in DOMAIN ByShort(f) : ByShort(f)[i][1] = ByShort(f)[j][1] => i = j
<1> DEFINE n == Cardinality(DOMAIN f)
           g == Ascending(DOMAIN f)
           q == ByShort(f)
<1>1. /\ n \in Nat /\ g \in [1..n -> DOMAIN f]
      /\ \A i, j \in 1..n : i < j => g[i] < g[j]
  BY AscendingIs
<1>2. q = [i \in 1..n |-> <<g[i], f[g[i]]>>]
  BY DEF ByShort
<1> HIDE DEF n, g, q
<1>3. q = [i \in 1..n |-> q[i]]
  BY <1>2
<1>4. q \in Seq(Range(q)) /\ DOMAIN q = 1..n
  BY <1>1, <1>3, ListIs
<1>5. \A i \in 1..n : g[i] \in DOMAIN f /\ q[i][1] = g[i] /\ q[i][2] = f[g[i]]
  BY <1>1, <1>2
<1>6. \A i, j \in 1..n : g[i] = g[j] => i = j
  <2> SUFFICES ASSUME NEW i \in 1..n, NEW j \in 1..n, i < j PROVE g[i] # g[j]
    OBVIOUS
  <2>1. g[i] < g[j] /\ g[i] \in Nat /\ g[j] \in Nat
    BY <1>1, CommissioningAssumption DEF Short
  <2> QED BY <2>1
<1>7. /\ q \in Seq(Range(q))
      /\ \A i \in DOMAIN q : q[i][1] \in DOMAIN f /\ q[i][2] = f[q[i][1]]
      /\ \A i, j \in DOMAIN q : q[i][1] = q[j][1] => i = j
  BY <1>4, <1>5, <1>6
<1> QED BY <1>7 DEF q

\* Two lists, one after the other.
LEMMA JoinIs ==
  ASSUME NEW p, NEW q, p \in Seq(Range(p)), q \in Seq(Range(q))
  PROVE  /\ p \o q \in Seq(Range(p \o q))
         /\ \A i \in DOMAIN (p \o q) :
              \/ i \in DOMAIN p /\ (p \o q)[i] = p[i]
              \/ /\ i - Len(p) \in DOMAIN q /\ i \notin DOMAIN p
                 /\ (p \o q)[i] = q[i - Len(p)]
         /\ DOMAIN p \subseteq DOMAIN (p \o q) /\ \A i \in DOMAIN p : (p \o q)[i] = p[i]
         /\ DOMAIN (p \o q) \subseteq Nat /\ Len(p) \in Nat
<1> DEFINE S == Range(p) \cup Range(q)
           r == p \o q
<1>1. p \in Seq(S) /\ q \in Seq(S)
  OBVIOUS
<1>2. /\ Len(p) \in Nat /\ Len(q) \in Nat /\ DOMAIN p = 1..Len(p) /\ DOMAIN q = 1..Len(q)
      /\ Len(r) = Len(p) + Len(q) /\ DOMAIN r = 1..(Len(p) + Len(q))
  BY <1>1
<1>3. \A i \in 1..Len(r) : r[i] = IF i <= Len(p) THEN p[i] ELSE q[i - Len(p)]
  BY <1>1
<1>a. r \in Seq(S)
  BY <1>1
<1>4. r = [i \in 1..Len(r) |-> r[i]]
  <2>1. \A x \in Seq(S) : x = [i \in 1..Len(x) |-> x[i]]
    OBVIOUS
  <2> QED BY <1>a, <2>1
<1> HIDE DEF r, S
<1>5. r \in Seq(Range(r))
  BY <1>2, <1>4, ListIs
<1>6. \A i \in DOMAIN r : \/ i \in DOMAIN p /\ r[i] = p[i]
                          \/ i - Len(p) \in DOMAIN q /\ i \notin DOMAIN p /\ r[i] = q[i - Len(p)]
  BY <1>2, <1>3
<1>7. DOMAIN p \subseteq DOMAIN r /\ (\A i \in DOMAIN p : r[i] = p[i]) /\ DOMAIN r \subseteq Nat
  BY <1>2, <1>3
<1> QED BY <1>2, <1>5, <1>6, <1>7 DEF r

\* What is left of a list without its first element.
LEMMA TailIs ==
  ASSUME NEW q, q \in Seq(Range(q)), q # <<>>
  PROVE  /\ Tail(q) \in Seq(Range(Tail(q)))
         /\ \A i \in DOMAIN Tail(q) :
              i \in Nat /\ i + 1 # 1 /\ i + 1 \in DOMAIN q /\ Tail(q)[i] = q[i + 1]
         /\ 1 \in DOMAIN q /\ Head(q) = q[1]
         /\ Len(q) # 1 => Tail(q) # <<>>
         /\ Len(q) = 1 => DOMAIN Tail(q) = {}
<1> DEFINE t == Tail(q)
           S == Range(q)
<1>1. q \in Seq(S)
  OBVIOUS
<1> HIDE DEF S
<1>2. Len(q) \in Nat \ {0} /\ DOMAIN q = 1..Len(q) /\ Head(q) = q[1]
  BY <1>1
<1>3. t \in Seq(S) /\ Len(t) = Len(q) - 1 /\ DOMAIN t = 1..(Len(q) - 1)
  BY <1>1, <1>2
<1>4. \A i \in 1..(Len(q) - 1) : t[i] = q[i + 1]
  BY <1>1, <1>2
<1>5. t = [i \in 1..Len(t) |-> t[i]]
  <2>1. \A x \in Seq(S) : x = [i \in 1..Len(x) |-> x[i]]
    OBVIOUS
  <2> QED BY <1>3, <2>1
<1> HIDE DEF t
<1>6. t \in Seq(Range(t))
  BY <1>2, <1>3, <1>5, ListIs
<1>7. \A i \in DOMAIN t : i \in Nat /\ i + 1 # 1 /\ i + 1 \in DOMAIN q /\ t[i] = q[i + 1]
  BY <1>2, <1>3, <1>4
<1>8. (Len(q) # 1 => t # <<>>) /\ (Len(q) = 1 => DOMAIN t = {}) /\ 1 \in DOMAIN q
  BY <1>2, <1>3
<1> QED BY <1>2, <1>6, <1>7, <1>8 DEF t

-----------------------------------------------------------------------------
(* What the gear answers *)

LEMMA TwoOf ==
  ASSUME NEW S, Cardinality(S) > 1
  PROVE  \E x, y \in S : x # y
<1> SUFFICES ASSUME \A x, y \in S : x = y PROVE FALSE
  OBVIOUS
<1>1. CASE S = {}
  BY <1>1, FS_EmptySet
<1>2. CASE S # {}
  <2>1. PICK x \in S : S = {x}
    BY <1>2
  <2> QED BY <2>1, FS_Singleton
<1> QED BY <1>1, <1>2

\* The addresses of some devices are finitely many.
LEMMA AddressesFinite ==
  ASSUME NEW b, NEW D \in SUBSET Device
  PROVE  IsFiniteSet({b[d].short : d \in D}) /\ IsFiniteSet({b[d].rand : d \in D})
<1>1. IsFiniteSet(D)
  <2>1. IsFiniteSet(Device)
    BY FS_Interval, CommissioningAssumption DEF Device
  <2> QED BY <2>1, FS_Subset
<1>2. IsFiniteSet({b[d].short : d \in D})
  <2> DEFINE T == {b[d].short : d \in D}
             f == [d \in D |-> b[d].short]
  <2>1. f \in Surjection(D, T)
    BY DEF Surjection
  <2> QED BY <1>1, <2>1, FS_Surjection
<1>3. IsFiniteSet({b[d].rand : d \in D})
  <2> DEFINE T == {b[d].rand : d \in D}
             f == [d \in D |-> b[d].rand]
  <2>1. f \in Surjection(D, T)
    BY DEF Surjection
  <2> QED BY <1>1, <2>1, FS_Surjection
<1> QED BY <1>2, <1>3

\* A short address that is answered is the one of every device that answers,
\* and only several devices make a framing error.
LEMMA ShortAnswersAre ==
  ASSUME NEW b \in Gears, NEW a, NEW r \in ShortAnswers(b, a)
  PROVE  /\ r \notin {Silence, FramingError} =>
              /\ Answering(b, a) # {}
              /\ \A d \in Answering(b, a) : b[d].short = r
         /\ r = FramingError => \E d, e \in Answering(b, a) : d # e
<1> DEFINE A == Answering(b, a)
           shorts == {b[d].short : d \in A}
<1>1. A \subseteq Device /\ IsFiniteSet(shorts)
  BY AddressesFinite DEF Answering
<1>2. \A x \in shorts : x \notin {Silence, FramingError}
  BY <1>1, CommissioningAssumption DEF Gears, Short, MASK, Invalid, Silence, FramingError
<1>3. r \in IF shorts = {} THEN {Silence}
            ELSE IF Cardinality(shorts) > 1 THEN {FramingError}
            ELSE IF Cardinality(A) > 1 THEN shorts \cup {FramingError}
            ELSE shorts
  BY DEF ShortAnswers
<1> HIDE DEF A
<1>4. CASE r = FramingError
  <2>1. Cardinality(shorts) > 1 \/ Cardinality(A) > 1
    BY <1>2, <1>3, <1>4 DEF Silence, FramingError
  <2>2. CASE Cardinality(shorts) > 1
    <3>1. PICK x \in shorts, y \in shorts : x # y
      BY <2>2, TwoOf
    <3> QED BY <3>1, <1>4 DEF A
  <2>3. CASE Cardinality(A) > 1
    BY <2>3, <1>4, TwoOf DEF A
  <2> QED BY <2>1, <2>2, <2>3
<1>5. CASE r \notin {Silence, FramingError}
  <2>1. r \in shorts /\ ~(Cardinality(shorts) > 1)
    BY <1>3, <1>5
  <2>2. Cardinality(shorts) \in Nat /\ Cardinality(shorts) # 0
    BY <1>1, <2>1, FS_CardinalityType, FS_EmptySet
  <2>3. Cardinality(shorts) = 1
    BY <2>1, <2>2
  <2>4. PICK x : shorts = {x}
    BY <1>1, <2>3, FS_Singleton
  <2>5. A # {} /\ \A d \in A : b[d].short = r
    BY <2>1, <2>4
  <2> QED BY <2>5, <1>5 DEF A
<1>6. CASE r = Silence
  BY <1>6 DEF Silence, FramingError
<1> QED BY <1>4, <1>5, <1>6

\* What is read at an address is the random address of all who hold it.
LEMMA RandomAtIs ==
  ASSUME NEW b \in Gears, NEW s, RandomAt(b, s) # None
  PROVE  /\ \E d \in Device : b[d].short = s
         /\ \A d \in Device : b[d].short = s => b[d].rand = RandomAt(b, s)
<1> DEFINE D == {e \in Device : b[e].short = s}
           rands == {b[d].rand : d \in D}
<1>1. IsFiniteSet(rands)
  BY AddressesFinite
<1>2. RandomAt(b, s) = IF Cardinality(rands) = 1 THEN CHOOSE r \in rands : TRUE ELSE None
  BY DEF RandomAt
<1>3. Cardinality(rands) = 1
  BY <1>2
<1>4. PICK x : rands = {x}
  BY <1>1, <1>3, FS_Singleton
<1>5. RandomAt(b, s) = x
  BY <1>2, <1>3, <1>4
<1> QED BY <1>4, <1>5

\* Randomised devices have a random address of their own, the others keep theirs.
LEMMA RerollsAre ==
  ASSUME NEW b \in Gears, NEW ds \in SUBSET Device, NEW c \in Rerolls(b, ds)
  PROVE  /\ \A d \in Device : c[d].state = b[d].state
         /\ \A d \in Device \ ds : c[d].rand = b[d].rand
         /\ \A d \in ds : /\ c[d].rand # UNSET
                          /\ \A e \in Device \ {d} : c[e].rand # c[d].rand
<1>1. PICK f \in [ds -> Random \ ({UNSET} \cup {b[d].rand : d \in Device \ ds})] :
          /\ IsInjective(f)
          /\ c = [d \in Device |-> IF d \in ds THEN [b[d] EXCEPT !.rand = f[d]] ELSE b[d]]
  BY DEF Rerolls
<1>2. \A d \in Device : /\ c[d].state = b[d].state
                        /\ c[d].rand = IF d \in ds THEN f[d] ELSE b[d].rand
  BY <1>1 DEF Gears
<1>3. \A d \in ds : f[d] # UNSET /\ \A e \in Device \ ds : f[d] # b[e].rand
  BY <1>1
<1>4. \A d, e \in ds : f[d] = f[e] => d = e
  BY <1>1 DEF IsInjective
<1> QED BY <1>2, <1>3, <1>4

\* TERMINATE, INITIALISE, PROGRAM and WITHDRAW leave the random addresses alone.
LEMMA InitialisedIs ==
  ASSUME NEW b \in Gears, NEW ds
  PROVE  \A d \in Device : /\ Initialised(b, ds)[d].rand = b[d].rand
                           /\ Initialised(b, ds)[d].state # "disabled" <=> d \in ds
  BY DEF Gears, Initialised

LEMMA WithdrawnIs ==
  ASSUME NEW b \in Gears, NEW as
  PROVE  \A d \in Device : /\ Withdrawn(b, as)[d].rand = b[d].rand
                           /\ Withdrawn(b, as)[d].state # "disabled" <=> b[d].state # "disabled"
  BY DEF Gears, Withdrawn

LEMMA ProgrammedIs ==
  ASSUME NEW b \in Gears, NEW a, NEW s
  PROVE  \A d \in Device :
            /\ Programmed(b, a, s)[d].rand = b[d].rand
            /\ Programmed(b, a, s)[d].state = b[d].state
            /\ Programmed(b, a, s)[d].short = IF d \in Answering(b, a) THEN s ELSE b[d].short
  BY DEF Gears, Programmed

-----------------------------------------------------------------------------
(* Steps that leave the addresses of the gear alone *)

SameAddresses == \A d \in Device : bus'[d].short = bus[d].short /\ bus'[d].rand = bus[d].rand

LEMMA SameView ==
  ASSUME SameAddresses
  PROVE  /\ \A s : HeldBy(s)' = HeldBy(s)
         /\ \A s, a : HeldWith(s, a)' <=> HeldWith(s, a)
         /\ \A d \in Device : Single(d)' <=> Single(d)
<1>1. \A s : HeldBy(s)' = HeldBy(s)
  BY DEF HeldBy, SameAddresses
<1>2. \A s : HeldBy(s) \subseteq Device
  BY DEF HeldBy
<1>3. \A s, a : HeldWith(s, a)' <=> HeldWith(s, a)
  BY <1>1, <1>2 DEF HeldWith, SameAddresses
<1>4. \A d \in Device : Single(d)' <=> Single(d)
  BY DEF Single, SameAddresses
<1> QED BY <1>1, <1>3, <1>4

LEMMA QuietStep ==
  ASSUME SameAddresses, OldInv, PolledInv, FoundInv, TwinInv,
         run'.old = run.old, run'.polled = run.polled, run'.avail = run.avail,
         run'.found = run.found, run'.conflicts = run.conflicts
  PROVE  OldInv' /\ PolledInv' /\ FoundInv' /\ TwinInv' /\ SettledStep
<1> USE SameView
<1>1. OldInv'
  BY DEF OldInv
<1>2. PolledInv'
  BY DEF PolledInv
<1>3. FoundInv'
  <2>1. \A s : HeldBy(s) \subseteq Device
    BY DEF HeldBy
  <2>2. \A d \in Device : bus'[d].rand = bus[d].rand
    BY DEF SameAddresses
  <2> QED BY <2>1, <2>2 DEF FoundInv
<1>4. TwinInv'
  BY DEF TwinInv, SameAddresses
<1>5. SettledStep
  BY DEF SettledStep, SameAddresses
<1> QED BY <1>1, <1>2, <1>3, <1>4, <1>5

-----------------------------------------------------------------------------
(* Until the devices join *)

LEMMA PollStep ==
  ASSUME AddressInv, ScanInv, PollPresent
  PROVE  ScanInv' /\ SettledStep
<1> USE DEF AddressInv, ScanInv
<1>1. PICK missed : run' = [run EXCEPT !.pc = "read", !.present = Present(missed)]
  BY DEF PollPresent
<1>2. run.pc = "poll" /\ bus' = bus
  BY DEF PollPresent
<1>3. /\ run'.pc = "read" /\ run'.present = Present(missed)
      /\ run'.old = run.old /\ run'.polled = run.polled /\ run'.avail = run.avail
      /\ run'.found = run.found /\ run'.conflicts = run.conflicts /\ run'.known = run.known
  BY <1>1 DEF Fields
<1>4. SameAddresses
  BY <1>2 DEF SameAddresses
<1>5. OldInv' /\ PolledInv' /\ FoundInv' /\ TwinInv' /\ SettledStep
  BY <1>3, <1>4, QuietStep
<1>6. Present(missed) \subseteq Short
  BY DEF Present
<1>7. StartInv'
  BY <1>2, <1>3, <1>6 DEF StartInv, Polled
<1>8. ActiveInv' /\ AnswersInv' /\ ConflictInv'
  BY <1>2, <1>3 DEF ActiveInv, AnswersInv, ConflictInv, StartInv
<1> QED BY <1>5, <1>7, <1>8

\* The addresses read are those whose holders all have one random address, and
\* nobody read at another address has it.
LEMMA ReadStep ==
  ASSUME AddressInv, ScanInv, PollRandoms
  PROVE  ScanInv' /\ SettledStep
<1> USE DEF AddressInv, ScanInv
<1> DEFINE got == ReadRandoms(bus, run.present)
           again == Doubtful(got)
           clean == Restrict(got, DOMAIN got \ again)
           q == ByShort(clean)
<1>1. run.pc = "read" /\ bus' = bus
  BY DEF PollRandoms
<1>2. run' = [run EXCEPT !.known = q, !.reroll = again,
                         !.pc = IF again = {} THEN "join" ELSE "reroll"]
  BY DEF PollRandoms
<1>3. \A s \in DOMAIN got : s \in run.present /\ RandomAt(bus, s) # None /\ got[s] = RandomAt(bus, s)
  BY DEF ReadRandoms
<1>4. run.present \subseteq Short
  BY <1>1 DEF StartInv, Polled
<1>5. DOMAIN clean = DOMAIN got \ again /\ \A s \in DOMAIN clean : clean[s] = got[s]
  BY DEF Restrict
<1>6. again \subseteq DOMAIN got
  BY DEF Doubtful
<1>7. \A s \in DOMAIN clean : got[s] # UNSET /\ \A t \in DOMAIN got \ {s} : got[t] # got[s]
  BY <1>5 DEF Doubtful
<1> HIDE DEF got, again, clean
<1>8. /\ q \in Seq(Range(q))
      /\ \A i \in DOMAIN q : q[i][1] \in DOMAIN clean /\ q[i][2] = clean[q[i][1]]
      /\ \A i, j \in DOMAIN q : q[i][1] = q[j][1] => i = j
  BY <1>3, <1>4, <1>5, ByShortIs
<1> HIDE DEF q
<1>9. /\ run'.known = q /\ run'.reroll = again /\ run'.pc = (IF again = {} THEN "join" ELSE "reroll")
      /\ run'.old = run.old /\ run'.polled = run.polled /\ run'.avail = run.avail
      /\ run'.found = run.found /\ run'.conflicts = run.conflicts /\ run'.present = run.present
  BY <1>2 DEF Fields
<1>10. SameAddresses
  BY <1>1 DEF SameAddresses
<1>11. OldInv' /\ PolledInv' /\ FoundInv' /\ TwinInv' /\ SettledStep
  BY <1>9, <1>10, QuietStep
<1>12. \A i \in DOMAIN q : /\ q[i][1] \in Short /\ q[i][2] # UNSET
                          /\ HeldBy(q[i][1]) # {} /\ HeldWith(q[i][1], q[i][2])
  <2> TAKE i \in DOMAIN q
  <2> DEFINE s == q[i][1]
  <2>1. s \in DOMAIN got /\ s \in Short /\ q[i][2] = got[s] /\ got[s] # UNSET
    BY <1>3, <1>4, <1>5, <1>7, <1>8
  <2>2. RandomAt(bus, s) # None /\ got[s] = RandomAt(bus, s)
    BY <1>3, <2>1
  <2> HIDE DEF s
  <2>3. HeldBy(s) # {} /\ HeldWith(s, got[s])
    BY <2>2, RandomAtIs DEF HeldBy, HeldWith
  <2> QED BY <2>1, <2>3 DEF s
<1>13. \A i, j \in DOMAIN q : q[i][2] = q[j][2] => i = j
  BY <1>5, <1>7, <1>8
<1>14. ReadAs(run.known)'
  BY <1>8, <1>9, <1>10, <1>12, <1>13, SameView DEF ReadAs
<1>15. \A i \in DOMAIN q : q[i][1] \notin again
  BY <1>5, <1>8
<1>16. again \subseteq Short
  BY <1>3, <1>4, <1>6
<1>17. StartInv'
  BY <1>1, <1>9, <1>14, <1>15, <1>16 DEF StartInv, Polled
<1>18. ActiveInv' /\ AnswersInv' /\ ConflictInv'
  BY <1>1, <1>9 DEF ActiveInv, AnswersInv, ConflictInv, StartInv, Polled
<1> QED BY <1>11, <1>17, <1>18

\* Randomised anew, the addresses in doubt are read at devices that share their
\* random address with nobody.
LEMMA RandomiseStep ==
  ASSUME AddressInv, ScanInv, RandomiseDoubtful
  PROVE  ScanInv' /\ SettledStep
<1> USE DEF AddressInv, ScanInv
<1> DEFINE ds == UNION {HeldBy(s) : s \in run.reroll}
           b == Initialised(bus, HeldBy(Max(run.reroll)))
           got == ReadRandoms(bus', run.reroll)
           p == run.known
           q == ByShort(got)
<1>1. run.pc = "reroll" /\ bus' \in Rerolls(b, ds)
  BY DEF RandomiseDoubtful
<1>2. run' = [run EXCEPT !.pc = "join", !.known = p \o q]
  BY DEF RandomiseDoubtful
<1>3. /\ run'.known = p \o q /\ run'.pc = "join"
      /\ run'.old = run.old /\ run'.polled = run.polled /\ run'.avail = run.avail
      /\ run'.found = run.found /\ run'.conflicts = run.conflicts /\ run'.present = run.present
  BY <1>2 DEF Fields
<1>4. /\ run.reroll \subseteq Short /\ ReadAs(p) /\ run.present \subseteq Short
      /\ \A i \in DOMAIN p : p[i][1] \notin run.reroll
      /\ DOMAIN run.found = {} /\ run.conflicts = {} /\ run.polled = {} /\ run.avail = {}
  BY <1>1 DEF StartInv, Polled
<1>5. b \in Gears /\ SameShorts(bus, b) /\ \A d \in Device : b[d].rand = bus[d].rand
  BY InitialisedShorts, InitialisedIs DEF SameShorts
<1>6. bus' \in Gears /\ \A d \in Device : bus'[d].short = bus[d].short
  BY <1>1, <1>5, RerolledShorts DEF SameShorts
<1>7. ds \in SUBSET Device /\ \A d \in Device : d \in ds <=> bus[d].short \in run.reroll
  BY DEF HeldBy
<1> HIDE DEF b
<1>8. /\ \A d \in Device \ ds : bus'[d].rand = bus[d].rand
      /\ \A d \in ds : bus'[d].rand # UNSET /\ \A e \in Device \ {d} : bus'[e].rand # bus'[d].rand
  BY <1>1, <1>5, <1>7, RerollsAre
<1> HIDE DEF ds
<1>9. \A s : HeldBy(s)' = HeldBy(s)
  BY <1>6 DEF HeldBy
<1>10. \A s \in DOMAIN got : s \in run.reroll /\ RandomAt(bus', s) # None /\ got[s] = RandomAt(bus', s)
  BY DEF ReadRandoms
<1>11. ASSUME NEW s \in DOMAIN got
       PROVE  /\ got[s] # UNSET
              /\ \E d \in HeldBy(s) : d \in ds /\ bus'[d].rand = got[s]
              /\ \A d \in HeldBy(s) : bus'[d].rand = got[s]
  <2>1. RandomAt(bus', s) # None /\ got[s] = RandomAt(bus', s) /\ s \in run.reroll
    BY <1>10
  <2>2. PICK d \in Device : bus'[d].short = s
    BY <1>6, <2>1, RandomAtIs
  <2>3. \A e \in Device : bus'[e].short = s => bus'[e].rand = got[s]
    BY <1>6, <2>1, RandomAtIs
  <2>4. d \in HeldBy(s) /\ d \in ds /\ bus'[d].rand = got[s]
    BY <1>6, <1>7, <2>1, <2>2, <2>3 DEF HeldBy
  <2>5. got[s] # UNSET
    BY <1>8, <2>4
  <2>6. \A e \in HeldBy(s) : bus'[e].rand = got[s]
    BY <1>6, <2>3 DEF HeldBy
  <2> QED BY <2>4, <2>5, <2>6
<1>12. DOMAIN got \subseteq Short
  BY <1>4, <1>10
<1> HIDE DEF got, p
<1>13. /\ q \in Seq(Range(q))
       /\ \A i \in DOMAIN q : q[i][1] \in DOMAIN got /\ q[i][2] = got[q[i][1]]
       /\ \A i, j \in DOMAIN q : q[i][1] = q[j][1] => i = j
  BY <1>12, ByShortIs
<1> HIDE DEF q
<1> DEFINE k == p \o q
<1>14. /\ k \in Seq(Range(k)) /\ DOMAIN k \subseteq Nat /\ Len(p) \in Nat
       /\ \A i \in DOMAIN k : \/ i \in DOMAIN p /\ k[i] = p[i]
                              \/ i - Len(p) \in DOMAIN q /\ i \notin DOMAIN p /\ k[i] = q[i - Len(p)]
  <2>1. p \in Seq(Range(p))
    BY <1>4 DEF ReadAs
  <2> QED BY <1>13, <2>1, JoinIs
<1> HIDE DEF k
<1> DEFINE With(s, a) == \A d \in HeldBy(s) : bus'[d].rand = a
<1>15. \A i \in DOMAIN p : /\ p[i][1] \in Short /\ p[i][2] # UNSET /\ With(p[i][1], p[i][2])
                           /\ \E d \in HeldBy(p[i][1]) : d \in Device \ ds /\ bus'[d].rand = p[i][2]
  <2> TAKE i \in DOMAIN p
  <2>1. p[i][1] \in Short /\ p[i][2] # UNSET /\ HeldBy(p[i][1]) # {} /\ HeldWith(p[i][1], p[i][2])
    BY <1>4 DEF ReadAs
  <2>2. \A d \in HeldBy(p[i][1]) : d \in Device \ ds
    BY <1>4, <1>7 DEF HeldBy
  <2> QED BY <1>8, <2>1, <2>2 DEF HeldWith
<1>16. \A i \in DOMAIN q : /\ q[i][1] \in Short /\ q[i][2] # UNSET /\ With(q[i][1], q[i][2])
                           /\ \E d \in HeldBy(q[i][1]) : d \in ds /\ bus'[d].rand = q[i][2]
  BY <1>11, <1>12, <1>13
<1>17. \A i \in DOMAIN k : /\ k[i][1] \in Short /\ k[i][2] # UNSET
                           /\ HeldBy(k[i][1]) # {} /\ With(k[i][1], k[i][2])
  BY <1>14, <1>15, <1>16
<1>18. ASSUME NEW i \in DOMAIN k, NEW j \in DOMAIN k, k[i][2] = k[j][2]
       PROVE  i = j
  <2>1. \A x, y \in DOMAIN p : p[x][2] = p[y][2] => x = y
    BY <1>4 DEF ReadAs
  <2>2. \A x, y \in DOMAIN q : q[x][2] = q[y][2] => x = y
    <3> SUFFICES ASSUME NEW x \in DOMAIN q, NEW y \in DOMAIN q, q[x][2] = q[y][2] PROVE x = y
      OBVIOUS
    <3>1. PICK d \in HeldBy(q[x][1]) : d \in ds /\ bus'[d].rand = q[x][2]
      BY <1>16
    <3>2. PICK e \in HeldBy(q[y][1]) : e \in ds /\ bus'[e].rand = q[y][2]
      BY <1>16
    <3>3. d = e
      BY <1>7, <1>8, <3>1, <3>2
    <3>4. q[x][1] = q[y][1]
      BY <3>1, <3>2, <3>3 DEF HeldBy
    <3> QED BY <1>13, <3>4
  <2>3. \A x \in DOMAIN p, y \in DOMAIN q : p[x][2] # q[y][2]
    BY <1>7, <1>8, <1>15, <1>16
  <2>4. i \in Nat /\ j \in Nat /\ Len(p) \in Nat
    BY <1>14
  <2>5. CASE i \in DOMAIN p /\ j \in DOMAIN p
    BY <1>14, <1>18, <2>1, <2>5
  <2>6. CASE i \in DOMAIN p /\ j \notin DOMAIN p
    BY <1>14, <1>18, <2>3, <2>6
  <2>7. CASE i \notin DOMAIN p /\ j \in DOMAIN p
    BY <1>14, <1>18, <2>3, <2>7
  <2>8. CASE i \notin DOMAIN p /\ j \notin DOMAIN p
    <3>1. i - Len(p) = j - Len(p)
      BY <1>14, <1>18, <2>2, <2>8
    <3> QED BY <2>4, <3>1
  <2> QED BY <2>5, <2>6, <2>7, <2>8
<1>19. run'.known = k
  BY <1>3 DEF k
<1>20. ReadAs(run.known)'
  BY <1>9, <1>14, <1>17, <1>18, <1>19 DEF ReadAs, HeldWith
<1>21. StartInv'
  BY <1>3, <1>4, <1>20 DEF StartInv, Polled
<1>22. OldInv' /\ PolledInv' /\ ActiveInv' /\ AnswersInv' /\ ConflictInv' /\ FoundInv'
  BY <1>3, <1>4 DEF OldInv, PolledInv, ActiveInv, AnswersInv, ConflictInv, FoundInv
<1>23. TwinInv'
  BY <1>3, <1>6, <1>7, <1>8 DEF TwinInv
<1>24. SettledStep
  BY <1>6 DEF SettledStep
<1> QED BY <1>21, <1>22, <1>23, <1>24

-----------------------------------------------------------------------------
(* The devices join, and the search *)

\* The answers depend on who is active and on what it holds.
LEMMA SameAnswering ==
  ASSUME NEW b, NEW c, NEW a,
         \A d \in Device : /\ c[d].rand = b[d].rand
                           /\ c[d].state # "disabled" <=> b[d].state # "disabled"
  PROVE  Answering(c, a) = Answering(b, a)
  BY DEF Answering

\* What the addresses known on the bus and stored are asked for: no random
\* address twice, none of them unset.
LEMMA KnownAndOldIs ==
  ASSUME OldInv, ReadAs(run.known)
  PROVE  LET k == KnownAndOld(run.known)
         IN  /\ k \in Seq(Range(k))
             /\ \A i \in DOMAIN k : k[i][2] # UNSET
             /\ \A i, j \in DOMAIN k : k[i][2] = k[j][2] => i = j
<1> DEFINE p == run.known
           T == {s \in DOMAIN run.old : run.old[s] \notin RandomsOf(p)}
           old == Restrict(run.old, T)
           q == ByShort(old)
           k == p \o q
<1>1. DOMAIN old = T /\ \A s \in T : old[s] = run.old[s]
  BY DEF Restrict
<1>2. \A s \in T : run.old[s] # UNSET /\ \A i \in DOMAIN p : p[i][2] # run.old[s]
  BY DEF OldInv, RandomsOf
<1>3. \A s, t \in T : run.old[s] = run.old[t] => s = t
  BY DEF OldInv, IsInjective
<1>4. T \subseteq Short
  BY DEF OldInv
<1>5. /\ p \in Seq(Range(p)) /\ \A i \in DOMAIN p : p[i][2] # UNSET
      /\ \A i, j \in DOMAIN p : p[i][2] = p[j][2] => i = j
  BY DEF ReadAs
<1> HIDE DEF p, T, old
<1>6. /\ q \in Seq(Range(q))
      /\ \A i \in DOMAIN q : q[i][1] \in DOMAIN old /\ q[i][2] = old[q[i][1]]
      /\ \A i, j \in DOMAIN q : q[i][1] = q[j][1] => i = j
  BY <1>1, <1>4, ByShortIs
<1> HIDE DEF q
<1>7. /\ k \in Seq(Range(k)) /\ DOMAIN k \subseteq Nat /\ Len(p) \in Nat
      /\ \A i \in DOMAIN k : \/ i \in DOMAIN p /\ k[i] = p[i]
                             \/ i - Len(p) \in DOMAIN q /\ i \notin DOMAIN p /\ k[i] = q[i - Len(p)]
  BY <1>5, <1>6, JoinIs
<1> HIDE DEF k
<1>8. \A i \in DOMAIN q : q[i][2] # UNSET /\ \A j \in DOMAIN p : p[j][2] # q[i][2]
  BY <1>1, <1>2, <1>6
<1>9. \A i, j \in DOMAIN q : q[i][2] = q[j][2] => i = j
  BY <1>1, <1>3, <1>6
<1>10. \A i \in DOMAIN k : k[i][2] # UNSET
  BY <1>5, <1>7, <1>8
<1>11. ASSUME NEW i \in DOMAIN k, NEW j \in DOMAIN k, k[i][2] = k[j][2]
       PROVE  i = j
  <2>1. i \in Nat /\ j \in Nat /\ Len(p) \in Nat
    BY <1>7
  <2>2. CASE i \in DOMAIN p /\ j \in DOMAIN p
    BY <1>5, <1>7, <1>11, <2>2
  <2>3. CASE i \in DOMAIN p /\ j \notin DOMAIN p
    BY <1>7, <1>8, <1>11, <2>3
  <2>4. CASE i \notin DOMAIN p /\ j \in DOMAIN p
    BY <1>7, <1>8, <1>11, <2>4
  <2>5. CASE i \notin DOMAIN p /\ j \notin DOMAIN p
    <3>1. i - Len(p) = j - Len(p)
      BY <1>7, <1>9, <1>11, <2>5
    <3> QED BY <2>1, <3>1
  <2> QED BY <2>2, <2>3, <2>4, <2>5
<1>12. KnownAndOld(run.known) = k
  BY DEF KnownAndOld, k, q, old, T, p
<1> QED BY <1>7, <1>10, <1>11, <1>12

LEMMA JoinStep ==
  ASSUME AddressInv, ScanInv, JoinAndWithdrawKnown
  PROVE  ScanInv' /\ SettledStep
<1> USE DEF AddressInv, ScanInv
<1> DEFINE all == Initialised(bus, Device)
<1>a. PICK k : k = KnownAndOld(run.known)
  OBVIOUS
<1>1. run.pc = "join"
  BY DEF JoinAndWithdrawKnown
<1>2. PICK mute, as, resp :
        /\ \A i \in DOMAIN k : resp[i] \in IF i \in mute THEN {Silence} ELSE ShortAnswers(all, k[i][2])
        /\ bus' = Withdrawn(all, as)
        /\ run' = [run EXCEPT !.polled = Range(run.known), !.known = k,
                              !.avail = Short \ run.present,
                              !.answers = [i \in DOMAIN k |-> <<k[i][2], resp[i]>>],
                              !.pc = IF k = <<>> THEN "search" ELSE "process"]
  <2> DEFINE known == KnownAndOld(run.known)
  <2>a. PICK mute \in SUBSET DOMAIN known, stay \in SUBSET RandomsOf(known) :
        \E resp \in [DOMAIN known -> {Silence} \cup UNION {ShortAnswers(all, a) : a \in RandomsOf(known)}] :
        /\ Lose([query |-> Cardinality(mute), withdraw |-> Cardinality(stay)])
        /\ \A i \in DOMAIN known :
              resp[i] \in IF i \in mute THEN {Silence} ELSE ShortAnswers(all, known[i][2])
        /\ bus' = Withdrawn(all, RandomsOf(known) \ stay)
        /\ run' = [run EXCEPT !.polled = Range(run.known), !.known = known,
                              !.avail = Short \ run.present,
                              !.answers = [i \in DOMAIN known |-> <<known[i][2], resp[i]>>],
                              !.pc = IF known = <<>> THEN "search" ELSE "process"]
    BY Zenon DEF JoinAndWithdrawKnown
  <2>1. PICK resp :
        /\ \A i \in DOMAIN known :
              resp[i] \in IF i \in mute THEN {Silence} ELSE ShortAnswers(all, known[i][2])
        /\ bus' = Withdrawn(all, RandomsOf(known) \ stay)
        /\ run' = [run EXCEPT !.polled = Range(run.known), !.known = known,
                              !.avail = Short \ run.present,
                              !.answers = [i \in DOMAIN known |-> <<known[i][2], resp[i]>>],
                              !.pc = IF known = <<>> THEN "search" ELSE "process"]
    BY <2>a, Zenon
  <2> HIDE DEF known
  <2>2. known = k
    BY <1>a DEF known
  <2>3. /\ \A i \in DOMAIN k : resp[i] \in IF i \in mute THEN {Silence} ELSE ShortAnswers(all, k[i][2])
        /\ bus' = Withdrawn(all, RandomsOf(k) \ stay)
        /\ run' = [run EXCEPT !.polled = Range(run.known), !.known = k,
                              !.avail = Short \ run.present,
                              !.answers = [i \in DOMAIN k |-> <<k[i][2], resp[i]>>],
                              !.pc = IF k = <<>> THEN "search" ELSE "process"]
    BY <2>1, <2>2, Zenon
  <2> DEFINE as == RandomsOf(k) \ stay
  <2>4. /\ \A i \in DOMAIN k : resp[i] \in IF i \in mute THEN {Silence} ELSE ShortAnswers(all, k[i][2])
        /\ bus' = Withdrawn(all, as)
        /\ run' = [run EXCEPT !.polled = Range(run.known), !.known = k,
                              !.avail = Short \ run.present,
                              !.answers = [i \in DOMAIN k |-> <<k[i][2], resp[i]>>],
                              !.pc = IF k = <<>> THEN "search" ELSE "process"]
    BY <2>3
  <2> HIDE DEF as
  <2> QED BY <2>4, ZenonT(60)
<1>3. /\ run.present \subseteq Short /\ ReadAs(run.known)
      /\ DOMAIN run.found = {} /\ run.conflicts = {} /\ run.polled = {} /\ run.avail = {}
  BY <1>1 DEF StartInv, Polled
<1>4. /\ k \in Seq(Range(k)) /\ \A i \in DOMAIN k : k[i][2] # UNSET
      /\ \A i, j \in DOMAIN k : k[i][2] = k[j][2] => i = j
  BY <1>a, <1>3, KnownAndOldIs
<1>5. all \in Gears /\ SameShorts(bus, all)
      /\ \A d \in Device : all[d].rand = bus[d].rand /\ all[d].state # "disabled"
  BY InitialisedShorts, InitialisedIs DEF SameShorts
<1> HIDE DEF all
<1>6. /\ bus' \in Gears
      /\ \A d \in Device : /\ bus'[d].short = all[d].short /\ bus'[d].rand = all[d].rand
                           /\ bus'[d].state # "disabled" /\ bus'[d].short = bus[d].short
  <2>1. PICK w : w = Withdrawn(all, as)
    OBVIOUS
  <2>2. SameShorts(all, w)
    BY <1>5, <2>1, WithdrawnShorts
  <2>3. \A d \in Device : /\ w[d].rand = all[d].rand
                          /\ w[d].state # "disabled" <=> all[d].state # "disabled"
    BY <1>5, <2>1, WithdrawnIs
  <2>4. w \in Gears /\ \A d \in Device : w[d].short = all[d].short
    BY <2>2 DEF SameShorts
  <2>5. \A d \in Device : all[d].short = bus[d].short
    BY <1>5 DEF SameShorts
  <2>6. \A d \in Device : w[d].state # "disabled"
    BY <1>5, <2>3
  <2>7. bus' = w
    BY <1>2, <2>1
  <2> HIDE DEF AddressInv, ScanInv
  <2>8. \A d \in Device : /\ w[d].short = all[d].short /\ w[d].rand = all[d].rand
                          /\ w[d].state # "disabled" /\ w[d].short = bus[d].short
    BY <2>3, <2>4, <2>5, <2>6
  <2>9. bus' \in Gears
    BY <2>4, <2>7
  <2> QED BY <2>7, <2>8, <2>9
<1>7. SameAddresses
  BY <1>5, <1>6 DEF SameAddresses
<1> DEFINE ans == [i \in DOMAIN k |-> <<k[i][2], resp[i]>>]
<1>8. /\ run'.polled = Range(run.known) /\ run'.avail = Short \ run.present /\ run'.answers = ans
      /\ run'.pc = (IF k = <<>> THEN "search" ELSE "process")
      /\ run'.old = run.old /\ run'.found = run.found /\ run'.conflicts = run.conflicts
  BY <1>2 DEF Fields
<1>9. OldInv' /\ SettledStep
  BY <1>7, <1>8 DEF OldInv, SettledStep, SameAddresses
<1>10. FoundInv' /\ ConflictInv' /\ StartInv'
  BY <1>3, <1>8 DEF FoundInv, ConflictInv, StartInv, Polled
<1>11. TwinInv'
  BY <1>3, <1>7, <1>8 DEF TwinInv, SameAddresses
<1>12. ActiveInv'
  BY <1>6 DEF ActiveInv, Active
<1>13. PolledInv'
  <2>1. \A i \in DOMAIN run.known : /\ run.known[i][1] \in Short /\ run.known[i][1] \in run.present
                                    /\ run.known[i][2] # UNSET /\ HeldWith(run.known[i][1], run.known[i][2])
    BY <1>1, <1>3 DEF ReadAs, Polled
  <2>2. \A x \in Range(run.known) : /\ x[1] \in Short /\ x[1] \in run.present
                                    /\ x[2] # UNSET /\ HeldWith(x[1], x[2])
    BY <2>1 DEF Range
  <2>3. \A x \in Range(run.known) : HeldWith(x[1], x[2])'
    BY <1>7, <2>2, SameView
  <2> QED BY <1>3, <1>8, <2>2, <2>3 DEF PolledInv
<1>14. AnswersInv'
  <2>1. /\ DOMAIN ans = DOMAIN k
        /\ \A i \in DOMAIN k : ans[i][1] = k[i][2] /\ ans[i][2] = resp[i]
    OBVIOUS
  <2>2. k # <<>> => ans # <<>>
    BY <1>4, <2>1
  <2>3. ans \in Seq(Range(ans))
    <3>1. DOMAIN k = 1..Len(k) /\ Len(k) \in Nat
      BY <1>4
    <3>2. ans = [i \in 1..Len(k) |-> ans[i]]
      BY <3>1, <2>1
    <3> HIDE DEF ans
    <3> QED BY <3>1, <3>2, ListIs
  <2>4. ASSUME NEW i \in DOMAIN k
        PROVE  AnswerHolds(<<k[i][2], resp[i]>>)'
    <3> DEFINE a == k[i][2]
    <3>1. Answering(bus', a) = Answering(all, a)
      BY <1>5, <1>6, SameAnswering
    <3>2. Answering(all, a) \subseteq Device
      BY DEF Answering
    <3>3. resp[i] = Silence \/ resp[i] \in ShortAnswers(all, a)
      BY <1>2
    <3>4. CASE resp[i] \in ShortAnswers(all, a)
      <4>1. /\ resp[i] \notin {Silence, FramingError} =>
                 /\ Answering(all, a) # {}
                 /\ \A d \in Answering(all, a) : all[d].short = resp[i]
            /\ resp[i] = FramingError => \E d, e \in Answering(all, a) : d # e
        BY <1>5, <3>4, ShortAnswersAre
      <4>2. /\ resp[i] \notin {Silence, FramingError} =>
                 /\ Answering(bus', a) # {}
                 /\ \A d \in Answering(bus', a) : bus'[d].short = resp[i]
            /\ resp[i] = FramingError => \E d, e \in Answering(bus', a) : d # e
        BY <1>6, <3>1, <3>2, <4>1
      <4> QED BY <4>2 DEF AnswerHolds
    <3>5. CASE resp[i] = Silence
      BY <3>5 DEF AnswerHolds, Silence, FramingError
    <3> QED BY <3>3, <3>4, <3>5
  <2>5. \A i \in DOMAIN ans : ans[i] = <<k[i][2], resp[i]>>
    OBVIOUS
  <2> HIDE DEF ans
  <2>6. \A i \in DOMAIN ans : AnswerHolds(ans[i])'
    BY <2>1, <2>4, <2>5
  <2>7. /\ \A i \in DOMAIN ans : ans[i][1] # UNSET
        /\ \A i, j \in DOMAIN ans : ans[i][1] = ans[j][1] => i = j
    BY <1>4, <2>1
  <2> QED BY <1>8, <2>2, <2>3, <2>6, <2>7 DEF AnswersInv
<1> QED BY <1>9, <1>10, <1>11, <1>12, <1>13, <1>14

\* Probing the bus changes nothing on it.
LEMMA SearchStep ==
  ASSUME AddressInv, ScanInv, Search \/ SearchExhausted, run'.pc # "over"
  PROVE  ScanInv' /\ SettledStep
<1> USE DEF AddressInv, ScanInv
<1>1. /\ run.pc = "search" /\ bus' = bus
      /\ run' \in {[run EXCEPT !.pc = "pass"]}
           \cup {[run EXCEPT !.failed = @ + 1]}
           \cup {[run EXCEPT !.pc = "found", !.last = run'.last, !.failed = run'.failed]}
      /\ run'.pc \in {"pass", "search", "found"}
      /\ run'.pc \in {"search", "found"} => run.low < MaxRandom
  <2>1. CASE SearchExhausted
    BY <2>1 DEF SearchExhausted, Fields
  <2>2. CASE Search
    <3>1. run.pc = "search" /\ run.low < MaxRandom
      BY <2>2 DEF Search
    <3>2. PICK a :
          \/ run' = [run EXCEPT !.pc = "pass"] /\ UNCHANGED bus
          \/ Over(bus, "aborted")
          \/ run' = [run EXCEPT !.failed = @ + 1] /\ UNCHANGED bus
          \/ /\ run' = [run EXCEPT !.pc = "found", !.last = a,
                                   !.failed = IF Fails(a) THEN @ + 1 ELSE 0]
             /\ UNCHANGED bus
      BY <2>2 DEF Search
    <3>3. ~Over(bus, "aborted")
      BY DEF Over, Fields
    <3>4. CASE run' = [run EXCEPT !.pc = "pass"] /\ UNCHANGED bus
      BY <3>1, <3>4 DEF Fields
    <3>5. CASE run' = [run EXCEPT !.failed = @ + 1] /\ UNCHANGED bus
      BY <3>1, <3>5 DEF Fields
    <3>6. CASE /\ run' = [run EXCEPT !.pc = "found", !.last = a,
                                     !.failed = IF Fails(a) THEN @ + 1 ELSE 0]
               /\ UNCHANGED bus
      BY <3>1, <3>6 DEF Fields
    <3> QED BY <3>2, <3>3, <3>4, <3>5, <3>6
  <2> QED BY <2>1, <2>2
<1>2. /\ run'.old = run.old /\ run'.polled = run.polled /\ run'.avail = run.avail
      /\ run'.found = run.found /\ run'.conflicts = run.conflicts /\ run'.low = run.low
  BY <1>1 DEF Fields
<1>3. SameAddresses
  BY <1>1 DEF SameAddresses
<1>4. OldInv' /\ PolledInv' /\ FoundInv' /\ TwinInv' /\ SettledStep
  BY <1>2, <1>3, QuietStep
<1>5. StartInv' /\ AnswersInv'
  BY <1>1 DEF StartInv, AnswersInv, Polled
<1>6. ActiveInv'
  BY <1>1 DEF ActiveInv, Active, Single
<1>7. ConflictInv'
  <2>1. run.conflicts \cap Short # {} => run.low = UNSET
    BY <1>1 DEF ConflictInv
  <2>2. run.low = UNSET => run'.pc = "pass"
    <3>1. UNSET \in Int /\ MaxRandom = UNSET
      BY CommissioningAssumption DEF UNSET, MaxRandom
    <3> QED BY <1>1, <3>1
  <2> QED BY <1>1, <1>2, <2>1, <2>2 DEF ConflictInv
<1> QED BY <1>4, <1>5, <1>6, <1>7

\* The device found answers, and leaves the search.
LEMMA QueryStep ==
  ASSUME AddressInv, ScanInv, run.mode = "extend", QueryAndWithdraw
  PROVE  ScanInv' /\ SettledStep
<1> USE DEF AddressInv, ScanInv
<1>1. run.pc = "found"
  BY DEF QueryAndWithdraw
<1>2. PICK mute \in BOOLEAN, stay \in BOOLEAN :
        \E s \in IF mute THEN {Silence} ELSE ShortAnswers(bus, run.last) :
           /\ bus' = IF stay THEN bus ELSE Withdrawn(bus, {run.last})
           /\ run' = [run EXCEPT !.pc = "process", !.answers = << <<run.last, s>> >>, !.low = run.last]
  BY DEF QueryAndWithdraw
<1>3. PICK s \in IF mute THEN {Silence} ELSE ShortAnswers(bus, run.last) :
           /\ bus' = IF stay THEN bus ELSE Withdrawn(bus, {run.last})
           /\ run' = [run EXCEPT !.pc = "process", !.answers = << <<run.last, s>> >>, !.low = run.last]
  BY <1>2
<1>a. PICK a : a = run.last
  OBVIOUS
<1>4. /\ run'.pc = "process" /\ run'.answers = << <<a, s>> >> /\ run'.low = a
      /\ run'.old = run.old /\ run'.polled = run.polled /\ run'.avail = run.avail
      /\ run'.found = run.found /\ run'.conflicts = run.conflicts
  BY <1>3, <1>a DEF Fields
<1>5. \A d \in Device : /\ bus'[d].short = bus[d].short /\ bus'[d].rand = bus[d].rand
                        /\ bus'[d].state # "disabled" <=> bus[d].state # "disabled"
  BY <1>3, WithdrawnShorts, WithdrawnIs DEF SameShorts
<1>6. SameAddresses
  BY <1>5 DEF SameAddresses
<1>7. OldInv' /\ PolledInv' /\ FoundInv' /\ TwinInv' /\ SettledStep
  BY <1>4, <1>6, QuietStep
<1>8. StartInv'
  BY <1>4 DEF StartInv, Polled
<1>9. ActiveInv'
  BY <1>1, <1>5, <1>6, SameView DEF ActiveInv, Active
<1>10. ConflictInv'
  BY <1>1, <1>4 DEF ConflictInv
<1>11. AnswerHolds(<<a, s>>)'
  <2>1. Answering(bus', a) = Answering(bus, a) /\ Answering(bus, a) \subseteq Device
    BY <1>5, SameAnswering DEF Answering
  <2>2. CASE s = Silence
    BY <2>2 DEF AnswerHolds, Silence, FramingError
  <2>3. CASE s \in ShortAnswers(bus, a)
    <3>1. /\ s \notin {Silence, FramingError} =>
               /\ Answering(bus, a) # {}
               /\ \A d \in Answering(bus, a) : bus[d].short = s
          /\ s = FramingError => \E d, e \in Answering(bus, a) : d # e
      BY <2>3, ShortAnswersAre
    <3>2. /\ s \notin {Silence, FramingError} =>
               /\ Answering(bus', a) # {}
               /\ \A d \in Answering(bus', a) : bus'[d].short = s
          /\ s = FramingError => \E d, e \in Answering(bus', a) : d # e
      BY <1>5, <2>1, <3>1
    <3> QED BY <3>2 DEF AnswerHolds
  <2> QED BY <1>3, <1>a, <2>2, <2>3
<1>12. AnswersInv'
  <2> DEFINE ans == << <<a, s>> >>
  <2>1. DOMAIN ans = 1..1 /\ ans[1] = <<a, s>> /\ Len(ans) = 1 /\ ans # <<>>
    OBVIOUS
  <2>2. ans = [i \in 1..1 |-> ans[i]]
    OBVIOUS
  <2>3. \A i \in DOMAIN ans : i = 1
    BY <2>1
  <2> HIDE DEF ans
  <2>4. ans \in Seq(Range(ans))
    BY <2>2, ListIs
  <2>5. \A i \in DOMAIN ans : AnswerHolds(ans[i])'
    BY <1>11, <2>1, <2>3
  <2>6. \A i \in DOMAIN ans : ans[i][1] = a
    BY <2>1, <2>3
  <2>7. run'.answers = ans
    BY <1>4 DEF ans
  <2> QED BY <1>4, <2>1, <2>3, <2>4, <2>5, <2>6, <2>7 DEF AnswersInv
<1> QED BY <1>7, <1>8, <1>9, <1>10, <1>12

\* The next pass randomises the devices put off, and searches for some of them:
\* none of them is at an address that was recorded.
LEMMA PassStep ==
  ASSUME AddressInv, ScanInv, NextPass
  PROVE  ScanInv' /\ SettledStep
<1> USE DEF AddressInv, ScanInv
<1> DEFINE ds == UNION {Conflicting(t) : t \in run.conflicts}
<1>1. run.pc = "pass"
  BY DEF NextPass
<1>2. PICK s \in run.conflicts :
        /\ bus' \in Rerolls(Initialised(bus, Conflicting(s)), ds)
        /\ run' = [run EXCEPT !.pc = "search", !.pass = @ + 1, !.conflicts = {}, !.low = 0,
                 !.last = None, !.failed = 0,
                 !.dropped = @ \cup UNION {Conflicting(t) : t \in run.conflicts \ {s}}]
  BY DEF NextPass
<1>3. /\ run'.pc = "search" /\ run'.conflicts = {}
      /\ run'.old = run.old /\ run'.polled = run.polled /\ run'.avail = run.avail
      /\ run'.found = run.found
  BY <1>2 DEF Fields
<1> DEFINE b == Initialised(bus, Conflicting(s))
<1>4. /\ b \in Gears /\ SameShorts(bus, b)
      /\ \A d \in Device : b[d].rand = bus[d].rand /\ (b[d].state # "disabled" <=> d \in Conflicting(s))
  BY InitialisedShorts, InitialisedIs DEF SameShorts
<1>5. ds \in SUBSET Device /\ Conflicting(s) \subseteq ds
  BY <1>2 DEF Conflicting, HeldBy
<1>6. \A d \in ds : bus[d].short \in run.conflicts \/ bus[d].short = MASK
  BY DEF Conflicting, HeldBy
<1> HIDE DEF b, ds
<1>7. bus' \in Rerolls(b, ds)
  BY <1>2 DEF b
<1>8. \A d \in Device : bus'[d].short = bus[d].short
  BY <1>4, <1>7, RerolledShorts DEF SameShorts
<1>9. /\ \A d \in Device : bus'[d].state # "disabled" <=> d \in Conflicting(s)
      /\ \A d \in Device \ ds : bus'[d].rand = bus[d].rand
      /\ \A d \in ds : bus'[d].rand # UNSET /\ \A e \in Device \ {d} : bus'[e].rand # bus'[d].rand
  BY <1>4, <1>5, <1>7, RerollsAre
<1>10. \A t : HeldBy(t)' = HeldBy(t) /\ HeldBy(t) \subseteq Device
  BY <1>8 DEF HeldBy
\* Who holds an address that was not put off keeps its random address.
<1>11. ASSUME NEW t \in Short, t \notin run.conflicts
       PROVE  \A d \in HeldBy(t) : d \notin ds /\ bus'[d].rand = bus[d].rand
  <2>1. t # MASK
    BY CommissioningAssumption DEF Short, MASK
  <2>2. \A d \in HeldBy(t) : d \in Device /\ bus[d].short = t
    BY DEF HeldBy
  <2> QED BY <1>6, <1>9, <1>11, <2>1, <2>2
<1>12. \A d \in Device \ ds : Single(d) => Single(d)'
  <2> SUFFICES ASSUME NEW d \in Device \ ds, Single(d), NEW e \in Device \ {d}
               PROVE  bus'[e].rand # bus'[d].rand
    BY DEF Single
  <2>1. CASE e \in ds
    BY <1>9, <2>1
  <2>2. CASE e \notin ds
    BY <1>9, <2>2 DEF Single
  <2> QED BY <2>1, <2>2
<1>13. OldInv' /\ StartInv' /\ AnswersInv' /\ ConflictInv' /\ SettledStep
  BY <1>3, <1>8 DEF OldInv, StartInv, Polled, AnswersInv, ConflictInv, SettledStep
<1>14. PolledInv'
  <2> SUFFICES ASSUME NEW p \in run.polled
               PROVE  /\ p[1] \in Short \ run.avail /\ p[2] # UNSET
                      /\ \A d \in HeldBy(p[1]) : bus'[d].rand = p[2]
    BY <1>3, <1>10 DEF PolledInv, HeldWith
  <2>1. p[1] \in Short \ run.avail /\ p[1] \notin run.conflicts /\ p[2] # UNSET /\ HeldWith(p[1], p[2])
    BY DEF PolledInv
  <2> QED BY <1>11, <2>1 DEF HeldWith
<1>15. ActiveInv'
  <2>1. \A d \in Device : Active(d)' => Single(d)'
    BY <1>5, <1>9 DEF Active, Single
  <2> QED BY <2>1 DEF ActiveInv
<1>16. FoundInv'
  <2> SUFFICES ASSUME NEW t \in DOMAIN run.found
               PROVE  /\ t \in Short \ run.avail /\ run.found[t] # UNSET
                      /\ \/ \A d \in HeldBy(t) : bus'[d].rand = run.found[t]
                         \/ \E d \in HeldBy(t) : Single(d)' /\ bus'[d].rand = run.found[t]
    BY <1>3, <1>10 DEF FoundInv, HeldWith
  <2>1. /\ t \in Short \ run.avail /\ run.found[t] # UNSET
        /\ HeldWith(t, run.found[t])
           \/ \E d \in HeldBy(t) : Single(d) /\ bus[d].rand = run.found[t]
    BY DEF FoundInv
  <2>2. t \notin run.conflicts
    BY DEF ConflictInv
  <2>4. \A d \in HeldBy(t) : d \in Device \ ds /\ bus'[d].rand = bus[d].rand
    BY <1>10, <1>11, <2>1, <2>2
  <2> QED BY <1>12, <2>1, <2>4 DEF HeldWith
<1>17. TwinInv'
  <2> SUFFICES ASSUME NEW d \in Device, NEW e \in Device, d # e,
                      bus'[d].rand = bus'[e].rand, bus'[d].rand # UNSET,
                      bus[d].short = bus[e].short, bus[d].short \in Short
               PROVE  bus[d].short \in DOMAIN run.found
    BY <1>3, <1>8 DEF TwinInv
  <2>1. d \notin ds /\ e \notin ds
    BY <1>9
  <2>2. bus[d].rand = bus[e].rand /\ bus[d].rand # UNSET
    BY <1>9, <2>1
  <2> QED BY <2>2 DEF TwinInv
<1> QED BY <1>13, <1>14, <1>15, <1>16, <1>17

-----------------------------------------------------------------------------
(* An answer is processed *)

LEMMA RestFields ==
  ASSUME NEW r, DOMAIN r = Fields
  PROVE  /\ Rest(r).answers = Tail(r.answers)
         /\ Rest(r).pc = (IF Len(r.answers) = 1 THEN "search" ELSE "process")
         /\ Rest(r).old = r.old /\ Rest(r).polled = r.polled /\ Rest(r).low = r.low
         /\ Rest(r).found = r.found /\ Rest(r).conflicts = r.conflicts
         /\ Rest(r).avail = r.avail /\ Rest(r).mode = r.mode
  BY DEF Rest, Fields

LEMMA RecordFields ==
  ASSUME NEW r, DOMAIN r = Fields, NEW s, NEW a
  PROVE  /\ Record(r, s, a).answers = r.answers
         /\ Record(r, s, a).old = r.old /\ Record(r, s, a).polled = r.polled
         /\ Record(r, s, a).low = r.low /\ Record(r, s, a).conflicts = r.conflicts
         /\ DOMAIN Record(r, s, a).found = DOMAIN r.found \cup {s}
         /\ Record(r, s, a).found[s] = a
         /\ \A t \in DOMAIN r.found : t # s => Record(r, s, a).found[t] = r.found[t]
         /\ Record(r, s, a).mode = r.mode
  BY DEF Record, Fields

LEMMA ConflictFields ==
  ASSUME DOMAIN run = Fields, NEW s
  PROVE  /\ Conflict(s).answers = run.answers
         /\ Conflict(s).old = run.old /\ Conflict(s).polled = run.polled
         /\ Conflict(s).low = run.low /\ Conflict(s).found = run.found
         /\ Conflict(s).conflicts = run.conflicts \cup {s}
         /\ Conflict(s).mode = run.mode
  BY DEF Conflict, Fields

\* The answer that is next.
LEMMA HeadIs ==
  ASSUME ScanInv, run.pc = "process"
  PROVE  /\ AnswerHolds(Answered)
         /\ Answered[1] = UNSET => Len(run.answers) = 1 /\ run.low = UNSET
<1>1. /\ run.answers # <<>> /\ run.answers \in Seq(Range(run.answers))
      /\ \A i \in DOMAIN run.answers :
            /\ AnswerHolds(run.answers[i])
            /\ run.answers[i][1] = UNSET => Len(run.answers) = 1 /\ run.low = UNSET
  BY DEF ScanInv, AnswersInv
<1>2. 1 \in DOMAIN run.answers /\ Answered = run.answers[1]
  BY <1>1, TailIs DEF Answered
<1> QED BY <1>1, <1>2

\* On to the next answer: only devices that answered this one were written to.
OnToNext ==
    /\ run'.answers = Tail(run.answers)
    /\ run'.pc = (IF Len(run.answers) = 1 THEN "search" ELSE "process")
    /\ run'.low = run.low /\ run'.old = run.old /\ run'.polled = run.polled
    /\ bus' \in Gears
    /\ \A d \in Device : /\ bus'[d].rand = bus[d].rand
                         /\ bus'[d].state # "disabled" <=> bus[d].state # "disabled"
                         /\ d \notin Answering(bus, Answered[1]) => bus'[d].short = bus[d].short

LEMMA OnStep ==
  ASSUME AddressInv, ScanInv, run.pc = "process", OnToNext
  PROVE  /\ OldInv' /\ StartInv' /\ ActiveInv' /\ AnswersInv'
         /\ \A d \in Device : Single(d)' <=> Single(d)
<1> USE DEF ScanInv, OnToNext
<1>1. OldInv' /\ StartInv'
  BY DEF OldInv, StartInv, Polled
<1>2. \A d \in Device : /\ Single(d)' <=> Single(d)
                        /\ Active(d)' <=> Active(d)
  BY DEF Single, Active
<1>3. ActiveInv'
  BY <1>2 DEF ActiveInv
<1>4. AnswersInv'
  <2>a. PICK q : q = run.answers
    OBVIOUS
  <2>1. /\ q # <<>> /\ q \in Seq(Range(q))
        /\ \A i \in DOMAIN q : /\ AnswerHolds(q[i])
                               /\ q[i][1] = UNSET => Len(q) = 1 /\ run.low = UNSET
        /\ \A i, j \in DOMAIN q : q[i][1] = q[j][1] => i = j
    BY <2>a DEF AnswersInv
  <2> DEFINE t == Tail(q)
  <2>2. /\ t \in Seq(Range(t))
        /\ \A i \in DOMAIN t : i \in Nat /\ i + 1 # 1 /\ i + 1 \in DOMAIN q /\ t[i] = q[i + 1]
        /\ 1 \in DOMAIN q /\ Head(q) = q[1]
        /\ Len(q) # 1 => t # <<>>
        /\ Len(q) = 1 => DOMAIN t = {}
    BY <2>1, TailIs
  <2> HIDE DEF t
  <2>3. run'.answers = t /\ (run'.pc = "process" => t # <<>>)
    BY <2>a, <2>2 DEF t
  <2>4. ASSUME NEW i \in DOMAIN t
        PROVE  t[i][1] # Answered[1] /\ t[i][1] # UNSET /\ AnswerHolds(t[i])
    <3>1. i + 1 \in DOMAIN q /\ i + 1 # 1 /\ t[i] = q[i + 1] /\ 1 \in DOMAIN q
      BY <2>2
    <3>2. Answered[1] = q[1][1]
      BY <2>a, <2>2 DEF Answered
    <3>3. t[i][1] # Answered[1] /\ AnswerHolds(t[i])
      BY <2>1, <3>1, <3>2
    <3>4. t[i][1] # UNSET
      BY <2>1, <2>2, <3>1
    <3> QED BY <3>3, <3>4
  <2>5. \A i, j \in DOMAIN t : t[i][1] = t[j][1] => i = j
    <3> SUFFICES ASSUME NEW i \in DOMAIN t, NEW j \in DOMAIN t, t[i][1] = t[j][1] PROVE i = j
      OBVIOUS
    <3>1. i + 1 = j + 1 /\ i \in Nat /\ j \in Nat
      BY <2>1, <2>2
    <3> QED BY <3>1
  <2>6. ASSUME NEW p, p[1] # Answered[1], AnswerHolds(p)
        PROVE  AnswerHolds(p)'
    <3>1. Answering(bus', p[1]) = Answering(bus, p[1]) /\ Answering(bus, p[1]) \subseteq Device
      BY SameAnswering DEF Answering
    <3>2. \A d \in Answering(bus, p[1]) : d \notin Answering(bus, Answered[1])
      BY <2>6 DEF Answering
    <3>3. \A d \in Answering(bus, p[1]) : bus'[d].short = bus[d].short
      BY <3>1, <3>2
    <3> QED BY <2>6, <3>1, <3>3 DEF AnswerHolds
  <2>7. t' = t
    BY <2>1 DEF t
  <2>8. \A i \in DOMAIN t : AnswerHolds(t[i])'
    BY <2>4, <2>6, <2>7
  <2> QED BY <2>2, <2>3, <2>4, <2>5, <2>8 DEF AnswersInv
<1> QED BY <1>1, <1>2, <1>3, <1>4

\* Nobody is in the way of a device written to because it could not be told
\* from others, holds no valid address, or is at another one's address.
LEMMA Spared ==
  ASSUME AddressInv, ScanInv, run.pc = "process", NEW a, a = Answered[1], NEW s, s = Answered[2],
         \/ s \in {FramingError, MASK, Invalid}
         \/ s \in Short /\ Shared(s, a),
         NEW d \in Answering(bus, a)
  PROVE  /\ ~Settled(d)
         /\ \A t \in DOMAIN run.found : ~(d \in HeldBy(t) /\ Single(d) /\ bus[d].rand = run.found[t])
<1>1. /\ s \notin {Silence, FramingError} =>
            \A e \in Answering(bus, a) : bus[e].short = s
      /\ s = FramingError => \E e, f \in Answering(bus, a) : e # f
  BY HeadIs DEF AnswerHolds
<1>2. \A e \in Answering(bus, a) : e \in Device /\ bus[e].rand = a
  BY DEF Answering
<1>3. Settled(d) => Single(d) /\ bus[d].short \in Short /\ HeldBy(bus[d].short) = {d}
  BY <1>2 DEF Settled, Singular, Single
<1>4. \A t \in DOMAIN run.found : t \in Short
  BY DEF ScanInv, FoundInv
<1>5. CASE s = FramingError
  <2>1. ~Single(d)
    BY <1>1, <1>2, <1>5 DEF Single
  <2> QED BY <1>3, <2>1
<1>6. CASE s \in {MASK, Invalid}
  <2>1. s \notin Short /\ s \notin {Silence, FramingError}
    BY <1>6, CommissioningAssumption DEF Short, MASK, Invalid, Silence, FramingError
  <2>2. bus[d].short \notin Short
    BY <1>1, <2>1
  <2> QED BY <1>3, <1>4, <2>2 DEF HeldBy
<1>7. CASE s \in Short /\ Shared(s, a)
  <2>1. s \notin {Silence, FramingError}
    BY <1>7, CommissioningAssumption DEF Short, Silence, FramingError
  <2>2. bus[d].short = s /\ s \in DOMAIN run.found /\ run.found[s] # a /\ bus[d].rand = a
    BY <1>1, <1>2, <1>7, <2>1 DEF Shared
  <2>3. \A t \in DOMAIN run.found : d \in HeldBy(t) => t = s
    BY <2>2 DEF HeldBy
  <2>4. d \in HeldBy(s)
    BY <1>2, <2>2 DEF HeldBy
  <2>5. \/ HeldWith(s, run.found[s])
        \/ \E e \in HeldBy(s) : bus[e].rand = run.found[s]
    BY <2>2 DEF ScanInv, FoundInv
  <2>6. ~Settled(d)
    BY <1>3, <2>2, <2>4, <2>5 DEF HeldWith
  <2> QED BY <2>2, <2>3, <2>6
<1> QED BY <1>5, <1>6, <1>7

\* A device is left as it is: its address is put off, or recorded, or neither.
LEMMA RecordingStep ==
  ASSUME AddressInv, ScanInv, run.pc = "process", OnToNext, bus' = bus, run'.avail = run.avail,
         NEW C, run'.conflicts = run.conflicts \cup C,
         \A c \in C : \/ c = Unaddressed
                      \/ /\ c \in Short \ run.avail /\ c \notin DOMAIN run.found
                         /\ \A p \in run.polled : p[1] # c
                         /\ Len(run.answers) = 1 /\ run.low = UNSET,
         DOMAIN run.found \subseteq DOMAIN run'.found,
         \A t \in DOMAIN run'.found :
            \/ t \in DOMAIN run.found /\ run'.found[t] = run.found[t]
            \/ /\ t \in Short \ (run.avail \cup run'.conflicts) /\ run'.found[t] # UNSET
               /\ \/ HeldWith(t, run'.found[t])
                  \/ \E d \in HeldBy(t) : Single(d) /\ bus[d].rand = run'.found[t]
  PROVE  ScanInv'
<1> USE DEF ScanInv
<1>1. OldInv' /\ StartInv' /\ ActiveInv' /\ AnswersInv'
  BY OnStep
<1>2. SameAddresses
  BY DEF SameAddresses
<1>3. /\ \A s : HeldBy(s)' = HeldBy(s) /\ HeldBy(s) \subseteq Device
      /\ \A s, a : HeldWith(s, a)' <=> HeldWith(s, a)
      /\ \A d \in Device : Single(d)' <=> Single(d)
  BY <1>2, SameView DEF HeldBy
<1>4. Unaddressed \notin Short
  BY CommissioningAssumption DEF Unaddressed, Short
<1>5. \A t \in DOMAIN run.found : t \in Short \ run.avail
  BY DEF FoundInv
<1>6. PolledInv'
  <2> SUFFICES ASSUME NEW p \in run.polled
               PROVE  p[1] \in Short \ (run'.avail \cup run'.conflicts) /\ p[2] # UNSET /\ HeldWith(p[1], p[2])
    BY <1>3 DEF PolledInv, OnToNext
  <2> QED BY <1>4 DEF PolledInv
<1>7. FoundInv'
  <2> SUFFICES ASSUME NEW t \in DOMAIN run'.found
               PROVE  /\ t \in Short \ run.avail /\ run'.found[t] # UNSET
                      /\ \/ HeldWith(t, run'.found[t])
                         \/ \E d \in HeldBy(t) : Single(d) /\ bus[d].rand = run'.found[t]
    BY <1>3 DEF FoundInv
  <2> QED BY DEF FoundInv
<1>8. TwinInv'
  BY DEF TwinInv
<1>9. ConflictInv'
  <2>1. run.conflicts \cap Short = {} /\ \A c \in run.conflicts : c \notin DOMAIN run.found /\ c \notin run.avail
    BY DEF ConflictInv
  <2>2. \A c \in run'.conflicts : c \notin DOMAIN run.found /\ c \notin run.avail
    BY <1>4, <1>5, <2>1 DEF AddressInv
  <2>3. \A c \in run'.conflicts : c \notin DOMAIN run'.found
    BY <2>2
  <2>4. run'.conflicts \cap Short # {} => Len(run.answers) = 1 /\ run.low = UNSET
    BY <1>4, <2>1
  <2> QED BY <2>2, <2>3, <2>4 DEF ConflictInv, OnToNext
<1> QED BY <1>1, <1>6, <1>7, <1>8, <1>9

\* The devices that answered get the address n, which nobody held, or lose the
\* one they had.
LEMMA WritingStep ==
  ASSUME AddressInv, ScanInv, run.pc = "process", OnToNext,
         NEW a, a = Answered[1], NEW n, n = MASK \/ n \in run.avail,
         \A d \in Answering(bus, a) : bus'[d].short = n,
         \A d \in Answering(bus, a), t \in DOMAIN run.found :
            ~(d \in HeldBy(t) /\ Single(d) /\ bus[d].rand = run.found[t]),
         run'.avail = run.avail \ {n},
         run'.conflicts \subseteq run.conflicts \cup {Unaddressed},
         DOMAIN run'.found = DOMAIN run.found \cup ({n} \ {MASK}),
         \A t \in DOMAIN run.found : run'.found[t] = run.found[t],
         n # MASK => run'.found[n] = a /\ a # UNSET
  PROVE  ScanInv'
<1> USE DEF ScanInv
<1> DEFINE A == Answering(bus, a)
<1>1. /\ OldInv' /\ StartInv' /\ ActiveInv' /\ AnswersInv'
      /\ \A d \in Device : Single(d)' <=> Single(d)
  BY OnStep
<1>2. /\ A \subseteq Device /\ \A d \in A : bus[d].rand = a /\ bus'[d].short = n
      /\ \A d \in Device : bus'[d].rand = bus[d].rand /\ (d \notin A => bus'[d].short = bus[d].short)
  BY DEF Answering, OnToNext
<1>3. MASK \notin Short /\ Unaddressed \notin Short
  BY CommissioningAssumption DEF MASK, Unaddressed, Short
<1>4. n # MASK => n \in Short /\ HeldBy(n) = {} /\ n \notin DOMAIN run.found /\ n \notin run.conflicts
  BY DEF AddressInv, FoundInv, ConflictInv
<1> HIDE DEF A
<1>5. \A t \in Short : t # n => HeldBy(t)' \subseteq HeldBy(t) /\ HeldBy(t) \subseteq Device
  BY <1>2 DEF HeldBy
<1>6. \A t \in Short : t # n => \A x : HeldWith(t, x) => HeldWith(t, x)'
  <2> SUFFICES ASSUME NEW t \in Short, t # n, NEW x, HeldWith(t, x), NEW d \in HeldBy(t)'
               PROVE  bus'[d].rand = x
    BY DEF HeldWith
  <2> QED BY <1>2, <1>5 DEF HeldWith
<1>7. PolledInv'
  <2> SUFFICES ASSUME NEW p \in run.polled
               PROVE  /\ p[1] \in Short \ (run'.avail \cup run'.conflicts)
                      /\ p[2] # UNSET /\ HeldWith(p[1], p[2])'
    BY DEF PolledInv, OnToNext
  <2>1. p[1] \in Short \ (run.avail \cup run.conflicts) /\ p[2] # UNSET /\ HeldWith(p[1], p[2])
    BY DEF PolledInv
  <2>2. p[1] # n
    BY <1>3, <2>1
  <2> QED BY <1>3, <1>6, <2>1, <2>2
<1>8. FoundInv'
  <2> SUFFICES ASSUME NEW t \in DOMAIN run'.found
               PROVE  /\ t \in Short \ run'.avail /\ run'.found[t] # UNSET
                      /\ \/ \A d \in HeldBy(t)' : bus'[d].rand = run'.found[t]
                         \/ \E d \in HeldBy(t)' : Single(d)' /\ bus'[d].rand = run'.found[t]
    BY DEF FoundInv, HeldWith
  <2>1. CASE t \in DOMAIN run.found
    <3>1. /\ t \in Short \ run.avail /\ run.found[t] # UNSET
          /\ \/ HeldWith(t, run.found[t])
             \/ \E d \in HeldBy(t) : Single(d) /\ bus[d].rand = run.found[t]
      BY <2>1 DEF FoundInv
    <3>2. t # n /\ run'.found[t] = run.found[t]
      BY <1>3, <1>4, <2>1, <3>1
    <3>3. CASE HeldWith(t, run.found[t])
      <4>1. HeldBy(t)' \subseteq HeldBy(t) /\ HeldBy(t) \subseteq Device
        BY <1>5, <3>1, <3>2
      <4>2. \A d \in HeldBy(t)' : bus'[d].rand = run'.found[t]
        BY <1>2, <3>2, <3>3, <4>1 DEF HeldWith
      <4> QED BY <3>1, <3>2, <4>2
    <3>4. ASSUME NEW d \in HeldBy(t), Single(d), bus[d].rand = run.found[t]
          PROVE  d \in HeldBy(t)' /\ Single(d)' /\ bus'[d].rand = run.found[t]
      <4>1. d \in Device /\ d \notin A
        BY <2>1, <3>4 DEF A, HeldBy
      <4> QED BY <1>1, <1>2, <3>4, <4>1 DEF HeldBy
    <3> QED BY <3>1, <3>2, <3>3, <3>4
  <2>2. CASE t = n /\ n # MASK
    <3>1. HeldBy(n)' \subseteq A
      BY <1>2, <1>4, <2>2 DEF HeldBy
    <3>2. \A d \in HeldBy(n)' : bus'[d].rand = a
      BY <1>2, <3>1
    <3> QED BY <1>4, <2>2, <3>2
  <2> QED BY <2>1, <2>2
<1>9. TwinInv'
  <2> SUFFICES ASSUME NEW d \in Device, NEW e \in Device, d # e,
                      bus'[d].rand = bus'[e].rand, bus'[d].rand # UNSET,
                      bus'[d].short = bus'[e].short, bus'[d].short \in Short
               PROVE  bus'[d].short \in DOMAIN run'.found
    BY DEF TwinInv
  <2>1. CASE bus'[d].short = n
    BY <1>3, <2>1
  <2>2. CASE bus'[d].short # n
    <3>1. d \notin A /\ e \notin A
      BY <1>2, <2>2
    <3> QED BY <1>2, <3>1 DEF TwinInv
  <2> QED BY <2>1, <2>2
<1>10. ConflictInv'
  <2>1. run.conflicts \cap Short = {} /\ \A c \in run.conflicts : c \notin DOMAIN run.found /\ c \notin run.avail
    BY DEF ConflictInv
  <2>2. \A t \in DOMAIN run'.found : t \in Short
    BY <1>8 DEF FoundInv
  <2>3. \A c \in run'.conflicts : c \notin DOMAIN run'.found /\ c \notin run'.avail
    BY <1>3, <1>4, <2>1, <2>2 DEF AddressInv
  <2> QED BY <1>3, <2>1, <2>3 DEF ConflictInv
<1> QED BY <1>1, <1>7, <1>8, <1>9, <1>10

\* Taking a device's address away, and giving it one that nobody holds.
LEMMA ResettingStep ==
  ASSUME AddressInv, ScanInv, run.pc = "process", NEW a, a = Answered[1], NEW s, s = Answered[2],
         \/ s \in {FramingError, MASK, Invalid}
         \/ s \in Short /\ Shared(s, a),
         ResetShort(a)
  PROVE  SettledStep /\ ScanInv'
<1> USE DEF AddressInv
<1>1. PICK taken \in BOOLEAN :
        /\ bus' = IF taken THEN Programmed(bus, a, MASK) ELSE bus
        /\ run' = Rest(Conflict(Unaddressed))
  BY DEF ResetShort
<1> DEFINE r == Conflict(Unaddressed)
<1>2. /\ DOMAIN r = Fields /\ r.answers = run.answers /\ r.avail = run.avail
      /\ r.old = run.old /\ r.polled = run.polled /\ r.low = run.low
      /\ r.found = run.found /\ r.conflicts = run.conflicts \cup {Unaddressed}
  BY ConflictIs, ConflictFields
<1> HIDE DEF r
<1>3. /\ run'.answers = Tail(run.answers)
      /\ run'.pc = (IF Len(run.answers) = 1 THEN "search" ELSE "process")
      /\ run'.old = run.old /\ run'.polled = run.polled /\ run'.low = run.low
      /\ run'.found = run.found /\ run'.conflicts = run.conflicts \cup {Unaddressed}
      /\ run'.avail = run.avail
  BY <1>1, <1>2, RestFields DEF r
<1>4. /\ bus' \in Gears
      /\ \A d \in Device : /\ bus'[d].rand = bus[d].rand
                           /\ bus'[d].state # "disabled" <=> bus[d].state # "disabled"
                           /\ d \notin Answering(bus, a) => bus'[d].short = bus[d].short
  BY <1>1, ProgrammedShorts, ProgrammedIs
<1>5. OnToNext
  BY <1>3, <1>4 DEF OnToNext
<1>6. \A d \in Answering(bus, a) :
         /\ ~Settled(d)
         /\ \A t \in DOMAIN run.found : ~(d \in HeldBy(t) /\ Single(d) /\ bus[d].rand = run.found[t])
  BY Spared
<1>7. SettledStep
  BY <1>4, <1>6 DEF SettledStep
<1>8. CASE taken
  <2>1. \A d \in Answering(bus, a) : bus'[d].short = MASK
    BY <1>1, <1>8, ProgrammedIs DEF Answering
  <2>2. MASK \notin run.avail
    BY CommissioningAssumption DEF MASK, Short
  <2>3. /\ DOMAIN run'.found = DOMAIN run.found \cup ({MASK} \ {MASK})
        /\ run'.avail = run.avail \ {MASK}
    BY <1>3, <2>2
  <2> QED BY <1>3, <1>5, <1>6, <1>7, <2>1, <2>3, WritingStep
<1>9. CASE ~taken
  <2>1. bus' = bus
    BY <1>1, <1>9
  <2> DEFINE C == {Unaddressed}
  <2>2. \A c \in C : c = Unaddressed
    OBVIOUS
  <2>3. run'.conflicts = run.conflicts \cup C
    BY <1>3
  <2> HIDE DEF C
  <2> QED BY <1>3, <1>5, <1>7, <2>1, <2>2, <2>3, RecordingStep
<1> QED BY <1>8, <1>9

LEMMA AssigningStep ==
  ASSUME AddressInv, ScanInv, run.pc = "process", NEW a, a = Answered[1], a # UNSET,
         NEW s, s = Answered[2],
         \/ s \in {FramingError, MASK, Invalid}
         \/ s \in Short /\ Shared(s, a),
         AssignShort(a, {}, Rest(run))
  PROVE  SettledStep /\ (run'.pc # "over" => ScanInv')
<1> USE DEF AddressInv
<1>1. \A d \in Answering(bus, a) :
         /\ ~Settled(d)
         /\ \A t \in DOMAIN run.found : ~(d \in HeldBy(t) /\ Single(d) /\ bus[d].rand = run.found[t])
  BY Spared
<1>2. CASE run.avail = {}
  <2>1. Over(bus, "aborted")
    BY <1>2 DEF AssignShort
  <2>2. run'.pc = "over" /\ bus' = Terminated(bus)
    BY <2>1 DEF Over, Fields
  <2>3. SettledStep
    BY <2>2, TerminatedShorts DEF SettledStep, SameShorts
  <2> QED BY <2>2, <2>3
<1>3. CASE run.avail # {}
  <2> DEFINE n == PickNewShort(a)[1]
             left == PickNewShort(a)[2]
  <2>1. n \in run.avail /\ left = run.avail \ {n}
    BY <1>3, PickedIs
  <2>2. PICK taken \in BOOLEAN, heard \in BOOLEAN, read \in BOOLEAN :
          LET after == IF taken THEN Programmed(bus, a, n) ELSE bus
              verified == heard /\ \E d \in Device : after[d].state # "disabled"
                                                     /\ after[d].short = n
          IN  IF verified \/ (read /\ n \in ShortAnswers(after, a))
              THEN /\ bus' = Withdrawn(after, {})
                   /\ run' = Record([Rest(run) EXCEPT !.avail = left], n, a)
              ELSE Over(after, "aborted")
    BY <1>3, Zenon DEF AssignShort
  <2> HIDE DEF n, left
  <2> DEFINE after == IF taken THEN Programmed(bus, a, n) ELSE bus
             verified == heard /\ \E d \in Device : after[d].state # "disabled" /\ after[d].short = n
             heardIt == verified \/ (read /\ n \in ShortAnswers(after, a))
  <2>3. n \in Short /\ HeldBy(n) = {} /\ n # MASK
    BY <2>1, CommissioningAssumption DEF Short, MASK
  <2>4. /\ after \in Gears
        /\ \A d \in Device : /\ after[d].rand = bus[d].rand
                             /\ after[d].state = bus[d].state
                             /\ d \notin Answering(bus, a) => after[d].short = bus[d].short
    BY <2>3, ProgrammedShorts, ProgrammedIs
  <2>5. CASE ~heardIt
    <3>1. Over(after, "aborted")
      BY <2>2, <2>5
    <3> HIDE DEF after
    <3>2. run'.pc = "over" /\ bus' = Terminated(after)
      BY <3>1 DEF Over, Fields
    <3>3. SettledStep
      BY <1>1, <2>4, <3>2, TerminatedShorts DEF SettledStep, SameShorts
    <3> QED BY <3>2, <3>3
  <2>6. CASE heardIt
    <3>1. taken
      <4> SUFFICES ASSUME ~taken PROVE FALSE
        OBVIOUS
      <4>1. after = bus
        OBVIOUS
      <4>2. n \notin {Silence, FramingError}
        BY <2>3, CommissioningAssumption DEF Short, Silence, FramingError
      <4>3. \A d \in Device : bus[d].short # n
        BY <2>3 DEF HeldBy
      <4>4. n \in ShortAnswers(bus, a)
        BY <2>6, <4>1, <4>3
      <4>5. Answering(bus, a) # {} /\ \A d \in Answering(bus, a) : bus[d].short = n
        BY <4>2, <4>4, ShortAnswersAre
      <4> QED BY <4>3, <4>5 DEF Answering
    <3>2. bus' = Withdrawn(after, {}) /\ run' = Record([Rest(run) EXCEPT !.avail = left], n, a)
      BY <2>2, <2>6
    <3>3. \A d \in Answering(bus, a) : d \in Device /\ after[d].short = n
      BY <3>1, ProgrammedIs DEF Answering
    <3> HIDE DEF after, heardIt
    <3>4. /\ bus' \in Gears
          /\ \A d \in Device : /\ bus'[d].rand = bus[d].rand /\ bus'[d].short = after[d].short
                               /\ bus'[d].state # "disabled" <=> bus[d].state # "disabled"
      BY <2>4, <3>2, WithdrawnShorts, WithdrawnIs DEF SameShorts
    <3> DEFINE r == [Rest(run) EXCEPT !.avail = left]
    <3>5. /\ DOMAIN r = Fields /\ r.avail = left /\ r.answers = Tail(run.answers)
          /\ r.pc = (IF Len(run.answers) = 1 THEN "search" ELSE "process")
          /\ r.old = run.old /\ r.polled = run.polled /\ r.low = run.low
          /\ r.found = run.found /\ r.conflicts = run.conflicts
      <4>1. DOMAIN Rest(run) = Fields
        BY RestIs
      <4> QED BY <4>1, RestFields DEF Fields
    <3> HIDE DEF r
    <3>6. run' = Record(r, n, a)
      BY <3>2 DEF r
    <3>7. /\ run'.answers = Tail(run.answers)
          /\ run'.pc = (IF Len(run.answers) = 1 THEN "search" ELSE "process")
          /\ run'.old = run.old /\ run'.polled = run.polled /\ run'.low = run.low
          /\ run'.conflicts = run.conflicts /\ run'.avail = run.avail \ {n}
          /\ DOMAIN run'.found = DOMAIN run.found \cup {n} /\ run'.found[n] = a
          /\ \A t \in DOMAIN run.found : t # n => run'.found[t] = run.found[t]
      BY <2>1, <3>5, <3>6, RecordIs, RecordFields
    <3>8. OnToNext
      BY <2>4, <3>4, <3>7 DEF OnToNext
    <3>9. \A t \in DOMAIN run.found : t # n
      BY <2>1 DEF ScanInv, FoundInv
    <3>10. SettledStep
      BY <1>1, <2>4, <3>4 DEF SettledStep
    <3>11. \A d \in Answering(bus, a) : bus'[d].short = n
      BY <3>3, <3>4
    <3>12. DOMAIN run'.found = DOMAIN run.found \cup ({n} \ {MASK})
      BY <2>3, <3>7
    <3>13. \A t \in DOMAIN run.found : run'.found[t] = run.found[t]
      BY <3>7, <3>9
    <3>14. ScanInv'
      BY <1>1, <2>1, <3>7, <3>8, <3>11, <3>12, <3>13, WritingStep
    <3> QED BY <3>10, <3>14
  <2> QED BY <2>5, <2>6
<1> QED BY <1>2, <1>3

\* Devices that keep what they have.
LEMMA LeavingStep ==
  ASSUME AddressInv, ScanInv, run.pc = "process", NEW r, DOMAIN r = Fields, KeepAs(r),
         r.answers = run.answers, r.avail = run.avail, r.old = run.old,
         r.polled = run.polled, r.low = run.low
  PROVE  /\ OnToNext /\ bus' = bus /\ run'.avail = run.avail /\ SettledStep
         /\ run'.found = r.found /\ run'.conflicts = r.conflicts
<1>1. run' = Rest(r) /\ bus' = bus
  BY DEF KeepAs
<1>2. /\ run'.answers = Tail(run.answers)
      /\ run'.pc = (IF Len(run.answers) = 1 THEN "search" ELSE "process")
      /\ run'.old = run.old /\ run'.polled = run.polled /\ run'.low = run.low
      /\ run'.avail = run.avail /\ run'.found = r.found /\ run'.conflicts = r.conflicts
  BY <1>1, RestFields
<1>3. OnToNext
  BY <1>1, <1>2 DEF OnToNext, AddressInv
<1> QED BY <1>1, <1>2, <1>3 DEF SettledStep

LEMMA ProcessStep ==
  ASSUME AddressInv, ScanInv, ProcessFoundDevice
  PROVE  SettledStep /\ (run'.pc # "over" => ScanInv')
<1> USE DEF AddressInv
<1>a. PICK a, s : a = Answered[1] /\ s = Answered[2]
  OBVIOUS
<1>1. run.pc = "process"
  BY DEF ProcessFoundDevice
<1>2. /\ s \notin {Silence, FramingError} =>
            Answering(bus, a) # {} /\ \A d \in Answering(bus, a) : bus[d].short = s
      /\ a = UNSET => Len(run.answers) = 1 /\ run.low = UNSET
  BY <1>a, <1>1, HeadIs DEF AnswerHolds
<1>3. \A d \in Answering(bus, a) : d \in Device /\ bus[d].rand = a
  BY DEF Answering
<1>4. \A t \in DOMAIN run.found : t \in Short \ run.avail /\ run.found[t] # UNSET
  BY DEF ScanInv, FoundInv
\* Nothing, or only devices without an address, are put off.
<1>5. CASE KeepAs(run)
  <2>1. /\ OnToNext /\ bus' = bus /\ run'.avail = run.avail /\ SettledStep
        /\ run'.found = run.found /\ run'.conflicts = run.conflicts
    BY <1>1, <1>5, LeavingStep
  <2> DEFINE C == {}
  <2>2. run'.conflicts = run.conflicts \cup C /\ \A c \in C : FALSE
    BY <2>1
  <2> HIDE DEF C
  <2> QED BY <1>1, <2>1, <2>2, RecordingStep
<1>6. CASE KeepAs(Conflict(Unaddressed))
  <2>1. /\ OnToNext /\ bus' = bus /\ run'.avail = run.avail /\ SettledStep
        /\ run'.found = run.found /\ run'.conflicts = run.conflicts \cup {Unaddressed}
    BY <1>1, <1>6, LeavingStep, ConflictIs, ConflictFields
  <2> DEFINE C == {Unaddressed}
  <2>2. run'.conflicts = run.conflicts \cup C /\ \A c \in C : c = Unaddressed
    BY <2>1
  <2> HIDE DEF C
  <2> QED BY <1>1, <2>1, <2>2, RecordingStep
\* Devices at s that share the unset address are put off.
<1>7. CASE s \in Short /\ s \notin DOMAIN run.found /\ a = UNSET /\ KeepAs(Conflict(s))
  <2>1. /\ OnToNext /\ bus' = bus /\ run'.avail = run.avail /\ SettledStep
        /\ run'.found = run.found /\ run'.conflicts = run.conflicts \cup {s}
    BY <1>1, <1>7, LeavingStep, ConflictIs, ConflictFields
  <2>2. PICK d \in Device : bus[d].short = s /\ bus[d].rand = UNSET
    <3>1. s \notin {Silence, FramingError}
      BY <1>7, CommissioningAssumption DEF Short, Silence, FramingError
    <3> QED BY <1>2, <1>3, <1>7, <3>1
  <2>3. s \notin run.avail
    BY <1>1, <2>2 DEF HeldBy
  <2>4. \A p \in run.polled : p[1] # s
    BY <2>2 DEF ScanInv, PolledInv, HeldWith, HeldBy
  <2> DEFINE C == {s}
  <2>5. run'.conflicts = run.conflicts \cup C
    BY <2>1
  <2>6. \A c \in C : /\ c \in Short \ run.avail /\ c \notin DOMAIN run.found
                     /\ \A p \in run.polled : p[1] # c
                     /\ Len(run.answers) = 1 /\ run.low = UNSET
    BY <1>2, <1>7, <2>3, <2>4
  <2> HIDE DEF C
  <2> QED BY <1>1, <2>1, <2>5, <2>6, RecordingStep
\* A device is recorded at its own address: it answers for itself, since two
\* that are alike would be at an address recorded before.
<1>8. CASE s \in Short /\ s \notin DOMAIN run.found /\ a # UNSET /\ KeepAs(Record(run, s, a))
  <2>1. /\ OnToNext /\ bus' = bus /\ run'.avail = run.avail /\ SettledStep
        /\ run'.found = Record(run, s, a).found /\ run'.conflicts = run.conflicts
    BY <1>1, <1>8, LeavingStep, RecordIs, RecordFields
  <2>2. /\ DOMAIN run'.found = DOMAIN run.found \cup {s} /\ run'.found[s] = a
        /\ \A t \in DOMAIN run.found : t # s => run'.found[t] = run.found[t]
    BY <2>1, RecordFields
  <2>3. PICK d \in Answering(bus, a) : bus[d].short = s
    <3>1. s \notin {Silence, FramingError}
      BY <1>8, CommissioningAssumption DEF Short, Silence, FramingError
    <3> QED BY <1>2, <3>1
  <2>4. Single(d)
    <3>1. CASE \A e \in Device : Active(e) => Single(e)
      BY <1>3, <2>3, <3>1 DEF Answering, Active
    <3>2. CASE \A e \in Device : Active(e)
      <4> SUFFICES ASSUME NEW e \in Device \ {d}, bus[e].rand = bus[d].rand PROVE FALSE
        BY DEF Single
      <4>1. e \in Answering(bus, a) /\ d \in Device /\ bus[d].rand = a /\ bus[e].rand = a
        BY <1>3, <2>3, <3>2 DEF Answering, Active
      <4>2. bus[e].short = s
        <5>1. s \notin {Silence, FramingError}
          BY <1>8, CommissioningAssumption DEF Short, Silence, FramingError
        <5> QED BY <1>2, <4>1, <5>1
      <4> QED BY <1>8, <2>3, <4>1, <4>2 DEF ScanInv, TwinInv
    <3> QED BY <1>1, <3>1, <3>2 DEF ScanInv, ActiveInv
  <2>5. d \in HeldBy(s) /\ bus[d].rand = a
    BY <1>3, <2>3 DEF HeldBy
  <2>6. s \notin run.avail /\ s \notin run.conflicts
    BY <1>1, <1>8, <2>5 DEF ScanInv, ConflictInv
  <2> DEFINE C == {}
  <2>7. run'.conflicts = run.conflicts \cup C /\ \A c \in C : FALSE
    BY <2>1
  <2> HIDE DEF C
  <2>8. \A t \in DOMAIN run'.found :
            \/ t \in DOMAIN run.found /\ run'.found[t] = run.found[t]
            \/ /\ t \in Short \ (run.avail \cup run'.conflicts) /\ run'.found[t] # UNSET
               /\ \E e \in HeldBy(t) : Single(e) /\ bus[e].rand = run'.found[t]
    BY <1>8, <2>1, <2>2, <2>4, <2>5, <2>6
  <2>9. DOMAIN run.found \subseteq DOMAIN run'.found
    BY <2>2
  <2> QED BY <1>1, <2>1, <2>7, <2>8, <2>9, RecordingStep
\* The poll confirmed the stored address.
<1>9. CASE /\ Cardinality(Confirmed(a)) = 1 /\ a # UNSET
           /\ KeepAs(Record(Conflict(Unaddressed), Max(Confirmed(a)), a))
  <2>1. PICK t : Confirmed(a) = {t}
    <3>1. IsFiniteSet(Short)
      BY FS_Interval, CommissioningAssumption DEF Short
    <3>2. Confirmed(a) \in SUBSET Short
      BY DEF Confirmed, ScanInv, OldInv
    <3>3. IsFiniteSet(Confirmed(a))
      BY <3>1, <3>2, FS_Subset
    <3> QED BY <1>9, <3>3, FS_Singleton
  <2>2. t \in Short /\ <<t, a>> \in run.polled
    BY <2>1 DEF Confirmed, ScanInv, OldInv
  <2>3. Max(Confirmed(a)) = t
    <3>1. \A y \in {t} : t >= y
      BY <2>2, CommissioningAssumption DEF Short
    <3> QED BY <2>1, <3>1 DEF Max
  <2>4. t \notin run.avail /\ t \notin run.conflicts /\ HeldWith(t, a)
    <3> DEFINE p == <<t, a>>
    <3>1. p \in run.polled /\ p[1] = t /\ p[2] = a
      BY <2>2
    <3> HIDE DEF p
    <3> QED BY <3>1 DEF ScanInv, PolledInv
  <2> DEFINE r == Conflict(Unaddressed)
  <2>5. /\ DOMAIN r = Fields /\ r.answers = run.answers /\ r.avail = run.avail /\ r.old = run.old
        /\ r.polled = run.polled /\ r.low = run.low /\ r.found = run.found
        /\ r.conflicts = run.conflicts \cup {Unaddressed}
    BY ConflictIs, ConflictFields
  <2> HIDE DEF r
  <2>6. KeepAs(Record(r, t, a))
    BY <1>9, <2>3 DEF r
  <2>7. /\ OnToNext /\ bus' = bus /\ run'.avail = run.avail /\ SettledStep
        /\ run'.found = Record(r, t, a).found /\ run'.conflicts = run.conflicts \cup {Unaddressed}
    BY <1>1, <2>5, <2>6, LeavingStep, RecordIs, RecordFields
  <2>8. /\ DOMAIN run'.found = DOMAIN run.found \cup {t} /\ run'.found[t] = a
        /\ \A u \in DOMAIN run.found : u # t => run'.found[u] = run.found[u]
    BY <2>5, <2>7, RecordFields
  <2>9. t # Unaddressed
    BY <2>2, CommissioningAssumption DEF Short, Unaddressed
  <2> DEFINE C == {Unaddressed}
  <2>10. run'.conflicts = run.conflicts \cup C /\ \A c \in C : c = Unaddressed
    BY <2>7
  <2> HIDE DEF C
  <2>11. \A u \in DOMAIN run'.found :
            \/ u \in DOMAIN run.found /\ run'.found[u] = run.found[u]
            \/ /\ u \in Short \ (run.avail \cup run'.conflicts) /\ run'.found[u] # UNSET
               /\ HeldWith(u, run'.found[u])
    BY <1>9, <2>2, <2>4, <2>7, <2>8, <2>9
  <2>12. DOMAIN run.found \subseteq DOMAIN run'.found
    BY <2>8
  <2> QED BY <1>1, <2>7, <2>10, <2>11, <2>12, RecordingStep
<1>10. CASE /\ s \in {FramingError, MASK, Invalid} \/ (s \in Short /\ Shared(s, a))
            /\ ResetShort(a)
  BY <1>a, <1>1, <1>10, ResettingStep
<1>11. CASE /\ s \in {FramingError, MASK, Invalid} \/ (s \in Short /\ Shared(s, a))
            /\ a # UNSET /\ AssignShort(a, {}, Rest(run))
  BY <1>a, <1>1, <1>11, AssigningStep
<1>12. \/ KeepAs(run) \/ KeepAs(Conflict(Unaddressed))
       \/ s \in Short /\ s \notin DOMAIN run.found /\ a = UNSET /\ KeepAs(Conflict(s))
       \/ s \in Short /\ s \notin DOMAIN run.found /\ a # UNSET /\ KeepAs(Record(run, s, a))
       \/ /\ Cardinality(Confirmed(a)) = 1 /\ a # UNSET
          /\ KeepAs(Record(Conflict(Unaddressed), Max(Confirmed(a)), a))
       \/ /\ s \in {FramingError, MASK, Invalid} \/ (s \in Short /\ Shared(s, a))
          /\ ResetShort(a)
       \/ /\ s \in {FramingError, MASK, Invalid} \/ (s \in Short /\ Shared(s, a))
          /\ a # UNSET /\ AssignShort(a, {}, Rest(run))
  BY <1>a, Zenon DEF ProcessFoundDevice
<1> QED BY <1>5, <1>6, <1>7, <1>8, <1>9, <1>10, <1>11, <1>12

-----------------------------------------------------------------------------
(* The scan as a whole *)

\* Which program runs does not change.
LEMMA ModeKept ==
  ASSUME AddressInv, Next
  PROVE  run'.mode = run.mode
<1> USE DEF AddressInv
<1>1. CASE PollPresent \/ PollRandoms \/ RandomiseDoubtful \/ SearchExhausted \/ NextPass \/ Finish
           \/ RandomiseEverything \/ StartList
  BY <1>1 DEF PollPresent, PollRandoms, RandomiseDoubtful, SearchExhausted, NextPass, Finish,
              RandomiseEverything, StartList, Fields
<1>2. ASSUME NEW b, NEW outcome, Over(b, outcome)
      PROVE  run'.mode = run.mode
  BY <1>2 DEF Over, Fields
<1>3. CASE JoinAndWithdrawKnown
  <2>1. PICK known, answers, pc :
          run' = [run EXCEPT !.polled = Range(run.known), !.known = known,
                             !.avail = Short \ run.present, !.answers = answers, !.pc = pc]
    <3> DEFINE known == KnownAndOld(run.known)
               all == Initialised(bus, Device)
    <3>1. PICK mute \in SUBSET DOMAIN known, stay \in SUBSET RandomsOf(known) :
          \E resp \in [DOMAIN known -> {Silence} \cup UNION {ShortAnswers(all, a) : a \in RandomsOf(known)}] :
          /\ Lose([query |-> Cardinality(mute), withdraw |-> Cardinality(stay)])
          /\ \A i \in DOMAIN known :
                resp[i] \in IF i \in mute THEN {Silence} ELSE ShortAnswers(all, known[i][2])
          /\ bus' = Withdrawn(all, RandomsOf(known) \ stay)
          /\ run' = [run EXCEPT !.polled = Range(run.known), !.known = known,
                                !.avail = Short \ run.present,
                                !.answers = [i \in DOMAIN known |-> <<known[i][2], resp[i]>>],
                                !.pc = IF known = <<>> THEN "search" ELSE "process"]
      BY <1>3, Zenon DEF JoinAndWithdrawKnown
    <3> HIDE DEF known, all
    <3>2. PICK resp :
          run' = [run EXCEPT !.polled = Range(run.known), !.known = known,
                             !.avail = Short \ run.present,
                             !.answers = [i \in DOMAIN known |-> <<known[i][2], resp[i]>>],
                             !.pc = IF known = <<>> THEN "search" ELSE "process"]
      BY <3>1, Zenon
    <3> WITNESS known, [i \in DOMAIN known |-> <<known[i][2], resp[i]>>],
                IF known = <<>> THEN "search" ELSE "process"
    <3> QED BY <3>2
  <2> QED BY <2>1 DEF Fields
<1>4. CASE Search
  <2>1. PICK a :
          \/ run' = [run EXCEPT !.pc = "pass"]
          \/ Over(bus, "aborted")
          \/ run' = [run EXCEPT !.failed = @ + 1]
          \/ run' = [run EXCEPT !.pc = "found", !.last = a,
                                !.failed = IF Fails(a) THEN @ + 1 ELSE 0]
    BY <1>4 DEF Search
  <2> QED BY <1>2, <2>1 DEF Fields
<1>5. CASE QueryAndWithdraw
  BY <1>5 DEF QueryAndWithdraw, Fields
<1>6. ASSUME NEW a, NEW away, NEW next, DOMAIN next = Fields, next.mode = run.mode,
             AssignShort(a, away, next)
      PROVE  run'.mode = run.mode
  <2>1. PICK b, left, n : \/ Over(b, "aborted")
                          \/ run' = Record([next EXCEPT !.avail = left], n, a)
    BY <1>6 DEF AssignShort
  <2> DEFINE r == [next EXCEPT !.avail = left]
  <2>2. DOMAIN r = Fields /\ r.mode = run.mode
    BY <1>6 DEF Fields
  <2> HIDE DEF r
  <2>3. CASE run' = Record([next EXCEPT !.avail = left], n, a)
    <3>1. run' = Record(r, n, a)
      BY <2>3 DEF r
    <3> QED BY <2>2, <3>1, RecordFields
  <2> QED BY <1>2, <2>1, <2>3
<1>7. CASE AddressFoundGear
  <2> DEFINE next == [run EXCEPT !.pc = "search", !.low = run.last]
  <2>1. DOMAIN next = Fields /\ next.mode = run.mode
    BY DEF Fields
  <2>2. PICK s : \/ run' = Record([next EXCEPT !.avail = @ \ {s}], s, run.last)
                 \/ AssignShort(run.last, {run.last}, next)
    BY <1>7 DEF AddressFoundGear
  <2> HIDE DEF next
  <2>3. CASE run' = Record([next EXCEPT !.avail = @ \ {s}], s, run.last)
    <3> DEFINE r == [next EXCEPT !.avail = @ \ {s}]
    <3>1. DOMAIN r = Fields /\ r.mode = run.mode
      BY <2>1 DEF Fields
    <3> HIDE DEF r
    <3>2. run' = Record(r, s, run.last)
      BY <2>3 DEF r
    <3> QED BY <3>1, <3>2, RecordFields
  <2> QED BY <1>6, <2>1, <2>2, <2>3
<1>8. CASE ProcessFoundDevice
  <2>1. PICK a, s :
        \/ KeepAs(run) \/ KeepAs(Conflict(Unaddressed)) \/ KeepAs(Conflict(s))
        \/ KeepAs(Record(run, s, a)) \/ KeepAs(Record(Conflict(Unaddressed), s, a))
        \/ ResetShort(a) \/ AssignShort(a, {}, Rest(run))
    BY <1>8 DEF ProcessFoundDevice
  <2>2. ASSUME NEW r, DOMAIN r = Fields, r.mode = run.mode, KeepAs(r)
        PROVE  run'.mode = run.mode
    BY <2>2, RestFields DEF KeepAs
  <2>3. \A c : DOMAIN Conflict(c) = Fields /\ Conflict(c).mode = run.mode
    BY ConflictIs, ConflictFields
  <2>4. CASE KeepAs(run)
    BY <2>2, <2>4
  <2>5. CASE KeepAs(Conflict(Unaddressed)) \/ KeepAs(Conflict(s))
    BY <2>2, <2>3, <2>5
  <2>6. CASE KeepAs(Record(run, s, a))
    BY <2>2, <2>6, RecordIs, RecordFields
  <2>7. CASE KeepAs(Record(Conflict(Unaddressed), s, a))
    BY <2>2, <2>3, <2>7, RecordIs, RecordFields
  <2>8. CASE ResetShort(a)
    BY <2>3, <2>8, RestFields DEF ResetShort
  <2>9. CASE AssignShort(a, {}, Rest(run))
    BY <1>6, <2>9, RestIs, RestFields
  <2> QED BY <2>1, <2>4, <2>5, <2>6, <2>7, <2>8, <2>9
<1> QED BY <1>1, <1>3, <1>4, <1>5, <1>7, <1>8 DEF Next

LEMMA ScanStep ==
  ASSUME AddressInv, KeepInv, Next
  PROVE  KeepInv' /\ (run.mode = "extend" => SettledStep)
<1>1. run'.mode = run.mode
  BY ModeKept
<1>2. SUFFICES ASSUME run.mode = "extend"
               PROVE  SettledStep /\ (run'.pc # "over" => ScanInv')
  BY <1>1 DEF KeepInv
<1> USE DEF AddressInv
<1>3. run.pc # "over"
  BY DEF Next, PollPresent, RandomiseEverything, StartList, PollRandoms, RandomiseDoubtful,
         JoinAndWithdrawKnown, ProcessFoundDevice, Search, SearchExhausted, QueryAndWithdraw,
         AddressFoundGear, NextPass, Finish
<1>4. ScanInv
  BY <1>2, <1>3 DEF KeepInv
<1>5. CASE PollPresent
  BY <1>4, <1>5, PollStep
<1>6. CASE PollRandoms
  BY <1>4, <1>6, ReadStep
<1>7. CASE RandomiseDoubtful
  BY <1>4, <1>7, RandomiseStep
<1>8. CASE JoinAndWithdrawKnown
  BY <1>4, <1>8, JoinStep
<1>9. CASE ProcessFoundDevice
  BY <1>4, <1>9, ProcessStep
<1>10. CASE Search \/ SearchExhausted
  <2>1. CASE run'.pc # "over"
    BY <1>4, <1>10, <2>1, SearchStep
  <2>2. CASE run'.pc = "over"
    <3>1. bus' = bus \/ bus' = Terminated(bus)
      BY <1>10 DEF Search, SearchExhausted, Over
    <3> QED BY <2>2, <3>1, TerminatedShorts DEF SettledStep, SameShorts
  <2> QED BY <2>1, <2>2
<1>11. CASE QueryAndWithdraw
  BY <1>2, <1>4, <1>11, QueryStep
<1>12. CASE NextPass
  BY <1>4, <1>12, PassStep
<1>13. CASE Finish
  <2>1. run'.pc = "over" /\ bus' = Terminated(bus)
    BY <1>13 DEF Finish, Fields
  <2> QED BY <2>1, TerminatedShorts DEF SettledStep, SameShorts
<1>14. ~RandomiseEverything /\ ~StartList /\ ~AddressFoundGear
  BY <1>2 DEF RandomiseEverything, StartList, AddressFoundGear
<1> QED BY <1>5, <1>6, <1>7, <1>8, <1>9, <1>10, <1>11, <1>12, <1>13, <1>14 DEF Next

\* A scan never writes the short address of a device alone with both its
\* addresses, whatever the configuration holds and whatever else is on the bus,
\* through lost COMPAREs, answers, WITHDRAWs and writes, new passes and devices
\* that stay in the search (_process_found_device, _pick_new_short_address,
\* _randomise_by_short), while no answer to the poll of the present addresses is
\* lost.
THEOREM SettledKeepsAddress ==
  ASSUME "present" \notin Lossy
  PROVE  Spec => SettledKeepAddress
<1>1. Init => AddressInv /\ KeepInv
  <2> SUFFICES ASSUME Init PROVE AddressInv /\ KeepInv
    OBVIOUS
  <2>1. bus \in Gears
    BY DEF Init, Gear, Gears
  <2>2. PICK mode \in Modes, old \in Configs : run = InitRun(mode, old)
    BY DEF Init
  <2>3. /\ DOMAIN run = Fields /\ run.avail = {} /\ run.pc = "poll" /\ run.old = old
        /\ DOMAIN run.found = {} /\ run.conflicts = {} /\ run.polled = {} /\ run.present = {}
    BY <2>2 DEF InitRun, Fields
  <2>4. AddressInv
    BY <2>1, <2>3 DEF AddressInv, Polled
  <2>5. OldInv
    BY <2>3 DEF OldInv, Configs
  <2>6. TwinInv
    <3> SUFFICES ASSUME NEW d \in Device, NEW e \in Device, d # e,
                        bus[d].rand = bus[e].rand, bus[d].rand # UNSET, bus[d].short = bus[e].short
                 PROVE  FALSE
      BY DEF TwinInv
    <3>0. \A x, y \in Device : x < y =>
            /\ Before(bus[x], bus[y])
            /\ bus[x].short = bus[y].short /\ bus[x].rand = bus[y].rand => bus[x].rand = UNSET
      BY Zenon DEF Init
    <3>1. \A x, y \in Device : x < y /\ bus[x].short = bus[y].short /\ bus[x].rand = bus[y].rand
                                => bus[x].rand = UNSET
      BY <3>0
    <3>2. d < e \/ e < d
      BY CommissioningAssumption DEF Device
    <3> QED BY <3>1, <3>2
  <2>7. StartInv /\ PolledInv /\ ActiveInv /\ AnswersInv /\ ConflictInv /\ FoundInv
    BY <2>3 DEF StartInv, PolledInv, ActiveInv, AnswersInv, ConflictInv, FoundInv
  <2> QED BY <2>4, <2>5, <2>6, <2>7 DEF KeepInv, ScanInv
<1>2. AddressInv /\ KeepInv /\ [Next]_vars
        => AddressInv' /\ KeepInv' /\ (run.mode = "extend" => SettledStep)
  <2> SUFFICES ASSUME AddressInv, KeepInv, [Next]_vars
               PROVE  AddressInv' /\ KeepInv' /\ (run.mode = "extend" => SettledStep)
    OBVIOUS
  <2>1. CASE Next
    BY <2>1, NextStep, ScanStep
  <2>2. CASE UNCHANGED vars
    <3>1. AddressInv' /\ SettledStep
      BY <2>2 DEF vars, AddressInv, HeldBy, SettledStep
    <3>2. KeepInv'
      BY <2>2 DEF vars, KeepInv, ScanInv, OldInv, StartInv, ReadAs, PolledInv, ActiveInv, Active,
                  AnswersInv, AnswerHolds, ConflictInv, FoundInv, TwinInv, HeldWith, HeldBy, Single
    <3> QED BY <3>1, <3>2
  <2> QED BY <2>1, <2>2
<1>3. (run.mode = "extend" => SettledStep)
        <=> \A d \in Device : Settled(d) /\ run.mode = "extend" => bus'[d].short = bus[d].short
  BY DEF SettledStep
<1> QED BY <1>1, <1>2, <1>3, PTL DEF Spec, SettledKeepAddress
=============================================================================
