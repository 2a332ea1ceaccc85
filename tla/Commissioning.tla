---------------------------- MODULE Commissioning ----------------------------
(* Addressing a DALI bus: commissioning.py (the scan the service runs, and the *)
(* search its command line offers) and address_with_randomise.py, together     *)
(* with the gear they talk to.  Addresses are small numbers: Bits stands for   *)
(* the 24 bits of a random address and MaxShort for 63.                        *)
EXTENDS Integers, Sequences, FiniteSets, SequencesExt, Functions, FiniteSetsExt

CONSTANTS
    Devices,   \* how many devices there are on the bus
    Bits,      \* bits of a random address
    MaxShort,  \* highest short address
    Modes,     \* which of the three programs may run
    Lossy,     \* kinds of frames whose answer or effect the bus may lose
    MaxLoss,   \* how many of them it loses in one run
    MaxStored, \* entries the configuration may hold
    MaxDefiant \* devices that may ignore WITHDRAW

\* Short addresses are six bits, 255 stands for none of them.
ASSUME CommissioningAssumption ==
    /\ Devices \in Nat /\ Bits \in Nat \ {0} /\ MaxShort \in 0..63
    /\ MaxLoss \in Nat /\ MaxStored \in Nat /\ MaxDefiant \in Nat

Device == 1..Devices
MaxRandom == 2^Bits - 1
UNSET == MaxRandom              \* UNSET_RANDOM_ADDRESS
Random == 0..MaxRandom
Short == 0..MaxShort
MASK == 255                     \* no short address
Invalid == MaxShort + 1         \* a short address outside the valid range
Unaddressed == -1               \* None in a set of short addresses to randomise
Silence == -2
FramingError == -3
None == -4
Unconfirmed == -5               \* UNCONFIRMED_ADDRESS
Attempts == 2                   \* SILENT_COMPARE_ATTEMPTS
GiveUp == 3                     \* FAILED_SEARCHES_BEFORE_GIVING_UP
Passes == 3                     \* binary searches before the scan gives up

VARIABLES
    bus,     \* per device: its addresses, its initialisation state, and
             \* whether it leaves the search when told to withdraw
    run,     \* the variables of the program that is running
    losses   \* frames lost so far
vars == <<bus, run, losses>>

-----------------------------------------------------------------------------
(* The gear. *)

Answering(b, a) == {d \in Device : b[d].state # "disabled" /\ b[d].rand = a}
HeldBy(s) == {d \in Device : bus[d].short = s}

\* COMPARE: some device still in the search holds a random address up to a.
AnswersCompare(a) ==
    \E d \in Device : bus[d].state = "enabled" /\ bus[d].rand <= a

\* What QUERY SHORT ADDRESS may bring when the search address is a: equal
\* answers of several devices may or may not read as a framing error.
ShortAnswers(b, a) ==
    LET shorts == {b[d].short : d \in Answering(b, a)}
    IN  IF shorts = {} THEN {Silence}
        ELSE IF Cardinality(shorts) > 1 THEN {FramingError}
        ELSE IF Cardinality(Answering(b, a)) > 1 THEN shorts \cup {FramingError}
        ELSE shorts

\* TERMINATE, then INITIALISE for the devices in ds.
Initialised(b, ds) ==
    [d \in Device |-> [b[d] EXCEPT !.state = IF d \in ds THEN "enabled" ELSE "disabled"]]
Terminated(b) == Initialised(b, {})
\* PROGRAM SHORT ADDRESS s while the search address is a.
Programmed(b, a, s) ==
    [d \in Device |-> IF d \in Answering(b, a) THEN [b[d] EXCEPT !.short = s] ELSE b[d]]
Withdrawn(b, as) ==
    [d \in Device |-> IF b[d].state = "enabled" /\ b[d].rand \in as /\ b[d].obeys
                      THEN [b[d] EXCEPT !.state = "withdrawn"] ELSE b[d]]
\* RANDOMISE: new random addresses, never the unset one and never one another
\* device holds (24 bits are many; Bits are few).
Rerolls(b, ds) ==
    {[d \in Device |-> IF d \in ds THEN [b[d] EXCEPT !.rand = f[d]] ELSE b[d]] :
        f \in {g \in [ds -> Random \ ({UNSET} \cup {b[d].rand : d \in Device \ ds})] :
                 IsInjective(g)}}

\* Loses counts[k] frames of every kind k.
Lose(counts) ==
    /\ \A k \in DOMAIN counts : counts[k] > 0 => k \in Lossy
    /\ losses' = losses + SumFunction(counts)
    /\ losses' <= MaxLoss
Count(lost, n) == IF lost THEN n ELSE 0

-----------------------------------------------------------------------------
(* The search for the lowest random address. Probe i of a search is unheard   *)
(* when i is in the set of lost answers.                                       *)

Probes == 1..(2 * Attempts + Bits)
Compare(a, i, lost) == AnswersCompare(a) /\ i \notin lost
CompareWithRetry(a, i, lost) ==
    \E k \in 0..(Attempts - 1) : Compare(a, i + k, lost)

Bisect(low, lost) ==
    LET found[b \in 0..Bits] ==
            IF b = Bits THEN 0
            ELSE LET above == found[b + 1]
                     probe == above + 2^b - 1
                 IN  IF probe < low \/ ~Compare(probe, 2 * Attempts + 1 + b, lost)
                     THEN above + 2^b ELSE above
    IN  found[0]

\* Seeded fault: the address the bisection converged on is not checked.
FindUnchecked(low, lost) ==
    IF CompareWithRetry(MaxRandom, 1, lost) THEN Bisect(low, lost) ELSE None
FindNextDevice(low, lost) ==
    IF ~CompareWithRetry(MaxRandom, 1, lost) THEN None
    ELSE LET a == Bisect(low, lost)
         IN  IF a > 0 /\ CompareWithRetry(a - 1, 1 + Attempts, lost) THEN Unconfirmed
             ELSE a

-----------------------------------------------------------------------------
(* Initial states: gear in any condition but one.  Two devices alike in both  *)
(* addresses answer as one, and only the unset random address tells the code   *)
(* that they may be two.                                                       *)

Gear == [short : Short \cup {MASK, Invalid}, rand : Random,
         state : {"disabled"}, obeys : BOOLEAN]
\* The configuration: what an earlier scan recorded.
Configs == {c \in UNION {[S -> Random \ {UNSET}] :
                           S \in {T \in SUBSET Short : Cardinality(T) <= MaxStored}} :
               IsInjective(c)}

InitRun(mode, old) ==
    [mode |-> mode, pc |-> "poll", old |-> old, present |-> {}, known |-> <<>>,
     reroll |-> {}, polled |-> {}, found |-> <<>>, avail |-> {}, conflicts |-> {},
     answers |-> <<>>, low |-> 0, last |-> None, failed |-> 0, pass |-> 1,
     dropped |-> {}, outcome |-> "running"]

\* Devices are numbered in the order of their addresses.
Before(g, h) == g.short < h.short \/ (g.short = h.short /\ g.rand <= h.rand)

Init ==
    /\ bus \in {b \in [Device -> Gear] :
                  /\ \A d, e \in Device : d < e =>
                        /\ Before(b[d], b[e])
                        /\ b[d].short = b[e].short /\ b[d].rand = b[e].rand
                             => b[d].rand = UNSET
                  /\ Cardinality({d \in Device : ~b[d].obeys}) <= MaxDefiant}
    /\ \E mode \in Modes, old \in Configs :
          /\ mode # "extend" => old = <<>>
          /\ run = InitRun(mode, old)
    /\ losses = 0

Over(b, outcome) ==
    bus' = Terminated(b) /\ run' = [run EXCEPT !.pc = "over", !.outcome = outcome]
\* The numbers in S, least first.
Ascending(S) == CHOOSE g \in [1..Cardinality(S) -> S] :
                    \A i, j \in 1..Cardinality(S) : i < j => g[i] < g[j]
ByShort(f) == [i \in 1..Cardinality(DOMAIN f) |->
                 LET s == Ascending(DOMAIN f)[i] IN <<s, f[s]>>]
RandomsOf(known) == {known[i][2] : i \in DOMAIN known}

-----------------------------------------------------------------------------
(* smart_extend until the search, and its counterparts in the other programs. *)

\* _get_present_short_addresses, free_short_addresses: one query per address.
QueryPresent(missed) ==
    /\ missed \subseteq {s \in Short : HeldBy(s) # {}}
    /\ Lose([present |-> Cardinality(missed)])
Present(missed) == {s \in Short : HeldBy(s) # {}} \ missed

PollPresent ==
    /\ run.pc = "poll" /\ run.mode = "extend"
    /\ \E missed \in SUBSET Short :
          QueryPresent(missed) /\ run' = [run EXCEPT !.pc = "read", !.present = Present(missed)]
    /\ UNCHANGED bus

RandomiseEverything ==
    /\ run.pc = "poll" /\ run.mode = "randomise"
    /\ \E missed \in SUBSET Short :
          /\ QueryPresent(missed)
          /\ run' = [run EXCEPT !.pc = "search", !.avail = Short \ Present(missed)]
    /\ bus' \in Rerolls(Initialised(bus, Device), Device)

StartList ==
    /\ run.pc = "poll" /\ run.mode = "list"
    /\ bus' = Initialised(bus, Device)
    /\ run' = [run EXCEPT !.pc = "search"]
    /\ UNCHANGED losses

\* get_random_address: devices that differ garble each other's answer.
RandomAt(b, s) ==
    LET rands == {b[d].rand : d \in {e \in Device : b[e].short = s}}
    IN  IF Cardinality(rands) = 1 THEN CHOOSE r \in rands : TRUE ELSE None
ReadRandoms(b, ss) ==
    LET clean == {s \in ss : RandomAt(b, s) # None} IN [s \in clean |-> RandomAt(b, s)]

\* Addresses whose random address is unset or read at another one as well.
Doubtful(got) ==
    {s \in DOMAIN got : got[s] = UNSET
                        \/ \E t \in DOMAIN got \ {s} : got[t] = got[s]}

PollRandoms ==
    /\ run.pc = "read"
    /\ LET got == ReadRandoms(bus, run.present)
           again == Doubtful(got)
       IN  run' = [run EXCEPT !.known = ByShort(Restrict(got, DOMAIN got \ again)),
                              !.reroll = again,
                              !.pc = IF again = {} THEN "join" ELSE "reroll"]
    /\ UNCHANGED <<bus, losses>>

\* Terminate, Initialise(short) and Randomise for each of them: the last one is
\* still initialised afterwards.
RandomiseDoubtful ==
    /\ run.pc = "reroll"
    /\ bus' \in Rerolls(Initialised(bus, HeldBy(Max(run.reroll))),
                        UNION {HeldBy(s) : s \in run.reroll})
    /\ run' = [run EXCEPT !.pc = "join", !.known = @ \o ByShort(ReadRandoms(bus', run.reroll))]
    /\ UNCHANGED losses

\* Seeded fault: only the addresses on the bus are asked for, not the stored ones.
KnownWithoutOld(known) == known
\* The addresses read on the bus come first: those in front keep their address.
KnownAndOld(known) ==
    known \o ByShort(Restrict(run.old, {s \in DOMAIN run.old :
                                          run.old[s] \notin RandomsOf(known)}))

\* Every device joins; the known random addresses are queried and withdrawn in
\* one batch, and the answers are processed after it.
JoinAndWithdrawKnown ==
    /\ run.pc = "join"
    /\ LET known == KnownAndOld(run.known)
           all == Initialised(bus, Device)
       IN \E mute \in SUBSET DOMAIN known, stay \in SUBSET RandomsOf(known) :
          \E resp \in [DOMAIN known ->
                          {Silence} \cup UNION {ShortAnswers(all, a) : a \in RandomsOf(known)}] :
          /\ Lose([query |-> Cardinality(mute), withdraw |-> Cardinality(stay)])
          /\ \A i \in DOMAIN known :
                resp[i] \in IF i \in mute THEN {Silence} ELSE ShortAnswers(all, known[i][2])
          /\ bus' = Withdrawn(all, RandomsOf(known) \ stay)
          /\ run' = [run EXCEPT !.polled = Range(run.known), !.known = known,
                             !.avail = Short \ run.present,
                             !.answers = [i \in DOMAIN known |-> <<known[i][2], resp[i]>>],
                             !.pc = IF known = <<>> THEN "search" ELSE "process"]

-----------------------------------------------------------------------------
(* _process_found_device and address_found_gear: one found address at a time. *)

\* _poll_confirmed_config_short
Confirmed(a) == {s \in DOMAIN run.old : run.old[s] = a /\ <<s, a>> \in run.polled}

Answered == Head(run.answers)
\* The variables r, on to the next answer.
Rest(r) == [r EXCEPT !.answers = Tail(@),
                     !.pc = IF Len(r.answers) = 1 THEN "search" ELSE "process"]
Record(r, s, a) ==
    [r EXCEPT !.found = [t \in DOMAIN @ \cup {s} |-> IF t = s THEN a ELSE @[t]]]

\* The next pass has to randomise the devices of s.
Conflict(s) == [run EXCEPT !.conflicts = @ \cup {s}]
\* Leave the device as it is.
KeepAs(r) == run' = Rest(r) /\ UNCHANGED <<bus, losses>>
\* Take its short address away: the next pass randomises it.
ResetShort(a) ==
    \E taken \in BOOLEAN :
       /\ Lose([program |-> Count(~taken, 1)])
       /\ bus' = IF taken THEN Programmed(bus, a, MASK) ELSE bus
       /\ run' = Rest(Conflict(Unaddressed))

\* Seeded fault: the new address stays available.
PickAgain(a) == <<Min(run.avail), run.avail>>
\* _pick_new_short_address: the stored one when it is free, else the lowest.
PickNewShort(a) ==
    LET stored == {s \in DOMAIN run.old : run.old[s] = a} \cap run.avail
        s == Min(IF stored # {} /\ run.mode = "extend" THEN stored ELSE run.avail)
    IN  <<s, run.avail \ {s}>>

\* _assign_short_address: VERIFY is answered by any initialised device that
\* holds the address, the address read back by the selected one.
AssignShort(a, away, next) ==
    IF run.avail = {} THEN Over(bus, "aborted") /\ UNCHANGED losses
    ELSE LET s == PickNewShort(a)[1] IN
         \E taken, heard, read \in BOOLEAN :
         LET after == IF taken THEN Programmed(bus, a, s) ELSE bus
             verified == heard /\ \E d \in Device : after[d].state # "disabled"
                                                    /\ after[d].short = s
         IN /\ Lose([program |-> Count(~taken, 1), verify |-> Count(~heard, 1),
                     query |-> Count(~read, 3)])
            /\ IF verified \/ (read /\ s \in ShortAnswers(after, a))
               THEN /\ bus' = Withdrawn(after, away)
                    /\ run' = Record([next EXCEPT !.avail = PickNewShort(a)[2]], s, a)
               ELSE Over(after, "aborted")

\* Seeded fault: a device that did not leave the search is taken for another.
SharedAlways(s, a) == s \in DOMAIN run.found
\* The short address was recorded for a device found before.
Shared(s, a) == s \in DOMAIN run.found /\ run.found[s] # a

ProcessFoundDevice ==
    /\ run.pc = "process"
    /\ LET a == Answered[1]
           s == Answered[2]
       IN \/ s = Silence /\ KeepAs(run)
          \/ /\ s = FramingError
             /\ IF Cardinality(Confirmed(a)) = 1 /\ a # UNSET
                THEN KeepAs(Record(Conflict(Unaddressed), Max(Confirmed(a)), a))
                ELSE ResetShort(a)
          \/ s = MASK /\ a = UNSET /\ KeepAs(Conflict(Unaddressed))
          \/ s = MASK /\ a # UNSET /\ AssignShort(a, {}, Rest(run))
          \/ s = Invalid /\ ResetShort(a)
          \/ s \in Short /\ Shared(s, a) /\ a = UNSET /\ ResetShort(a)
          \/ s \in Short /\ Shared(s, a) /\ a # UNSET /\ AssignShort(a, {}, Rest(run))
          \/ s \in Short /\ s \in DOMAIN run.found /\ ~Shared(s, a) /\ KeepAs(run)
          \/ s \in Short /\ s \notin DOMAIN run.found /\ a = UNSET
             /\ KeepAs(Conflict(s))
          \/ s \in Short /\ s \notin DOMAIN run.found /\ a # UNSET
             /\ KeepAs(Record(run, s, a))

-----------------------------------------------------------------------------
(* The search loop. *)

\* Seeded fault: a search that finds the same address again is not counted.
UnconfirmedFails(a) == a = Unconfirmed
Fails(a) == a \in {Unconfirmed, run.last}

Search ==
    /\ run.pc = "search" /\ run.low < MaxRandom
    /\ \E lost \in {l \in SUBSET Probes : Cardinality(l) <= MaxLoss} :
       LET a == FindNextDevice(run.low, lost) IN
       /\ Lose([compare |-> Cardinality(lost)])
       /\ IF a = None THEN run' = [run EXCEPT !.pc = "pass"] /\ UNCHANGED bus
          ELSE IF Fails(a) /\ run.failed + 1 >= GiveUp THEN Over(bus, "aborted")
          ELSE IF a = Unconfirmed \/ (Fails(a) /\ run.mode = "randomise")
          THEN run' = [run EXCEPT !.failed = @ + 1] /\ UNCHANGED bus
          ELSE run' = [run EXCEPT !.pc = "found", !.last = a,
                                  !.failed = IF Fails(a) THEN @ + 1 ELSE 0]
               /\ UNCHANGED bus

SearchExhausted ==
    /\ run.pc = "search" /\ run.low >= MaxRandom
    /\ run' = [run EXCEPT !.pc = "pass"]
    /\ UNCHANGED <<bus, losses>>

\* QUERY SHORT ADDRESS, three times while it fails, then WITHDRAW.
QueryAndWithdraw ==
    /\ run.pc = "found" /\ run.mode \in {"extend", "list"}
    /\ \E mute, stay \in BOOLEAN :
       \E s \in IF mute THEN {Silence} ELSE ShortAnswers(bus, run.last) :
          /\ Lose([query |-> Count(mute, 3), withdraw |-> Count(stay, 1)])
          /\ bus' = IF stay THEN bus ELSE Withdrawn(bus, {run.last})
          /\ run' = IF run.mode = "extend"
                    THEN [run EXCEPT !.pc = "process", !.answers = << <<run.last, s>> >>,
                                     !.low = run.last]
                    ELSE [run EXCEPT !.pc = "search", !.low = run.last,
                                     !.known = Append(@, <<s, run.last>>)]

\* address_found_gear: its own address, or the lowest free one; then WITHDRAW.
AddressFoundGear ==
    /\ run.pc = "found" /\ run.mode = "randomise"
    /\ \E mute \in BOOLEAN :
       \E s \in IF mute THEN {Silence} ELSE ShortAnswers(bus, run.last) :
          LET next == [run EXCEPT !.pc = "search", !.low = run.last] IN
          /\ mute => "query" \in Lossy
          /\ IF s \in Short
             THEN /\ bus' = Withdrawn(bus, {run.last})
                  /\ run' = Record([next EXCEPT !.avail = @ \ {s}], s, run.last)
                  /\ UNCHANGED losses
             ELSE AssignShort(run.last, {run.last}, next)

\* The devices the next pass is to randomise.
Conflicting(s) == HeldBy(IF s = Unaddressed THEN MASK ELSE s)

\* One group after the other: Terminate, Initialise(group), Randomise.  The
\* groups come in the set's order, and only the last one is still initialised.
NextPass ==
    /\ run.pc = "pass" /\ run.mode = "extend"
    /\ run.conflicts # {} /\ run.pass < Passes
    /\ \E s \in run.conflicts :
          /\ bus' \in Rerolls(Initialised(bus, Conflicting(s)),
                              UNION {Conflicting(t) : t \in run.conflicts})
          /\ run' = [run EXCEPT !.pc = "search", !.pass = @ + 1, !.conflicts = {}, !.low = 0,
                   !.last = None, !.failed = 0,
                   !.dropped = @ \cup UNION {Conflicting(t) : t \in run.conflicts \ {s}}]
    /\ UNCHANGED losses

\* update_config replaces the file in one step, or leaves it when that fails.
Finish ==
    /\ run.pc = "pass"
    /\ run.mode = "extend" => run.conflicts = {} \/ run.pass >= Passes
    /\ bus' = Terminated(bus)
    /\ \E written \in BOOLEAN :
          run' = [run EXCEPT !.pc = "over", !.outcome = "done",
                             !.old = IF run.mode = "randomise" /\ run.found # <<>> /\ written
                                     THEN run.found ELSE @]
    /\ UNCHANGED losses

Next ==
    \/ PollPresent \/ RandomiseEverything \/ StartList
    \/ PollRandoms \/ RandomiseDoubtful \/ JoinAndWithdrawKnown
    \/ ProcessFoundDevice
    \/ Search \/ SearchExhausted \/ QueryAndWithdraw \/ AddressFoundGear
    \/ NextPass \/ Finish

Spec == Init /\ [][Next]_vars /\ WF_vars(Next)

-----------------------------------------------------------------------------
(* What a scan concludes. *)

RandomOf(f) == {f[s] : s \in DOMAIN f}
Unchanged == {s \in DOMAIN run.old \cap DOMAIN run.found : run.old[s] = run.found[s]}
Changed == {p \in Short \X Short :
               /\ p[1] # p[2] /\ p[1] \in DOMAIN run.old /\ p[2] \in DOMAIN run.found
               /\ run.old[p[1]] = run.found[p[2]]}
Missing == {s \in DOMAIN run.old : run.old[s] \notin RandomOf(run.found)}
New == {s \in DOMAIN run.found : run.found[s] \notin RandomOf(run.old)}

-----------------------------------------------------------------------------
(* Properties. *)

Pcs == {"poll", "read", "reroll", "join", "process", "search", "found", "pass", "over"}
\* The shape of the state.
TypeOK ==
    /\ bus \in [Device -> [short : Short \cup {MASK, Invalid}, rand : Random,
                           state : {"disabled", "enabled", "withdrawn"}, obeys : BOOLEAN]]
    /\ run.pc \in Pcs /\ run.avail \subseteq Short /\ DOMAIN run.found \subseteq Short
    /\ run.conflicts \subseteq Short \cup {Unaddressed}
    /\ run.outcome \in {"running", "done", "aborted"} /\ losses \in 0..MaxLoss

AllObey == \A d \in Device : bus[d].obeys
ScanDone == run.mode = "extend" /\ run.outcome = "done" /\ run.conflicts = {}

\* Each device found, and each device stored, is in one list of the result.
ReportedOnce ==
    /\ Cardinality(Unchanged) + Cardinality(Changed) + Cardinality(New) = Cardinality(DOMAIN run.found)
    /\ Cardinality(Unchanged) + Cardinality(Changed) + Cardinality(Missing) = Cardinality(DOMAIN run.old)

\* "New devices get free short addresses": when a scan ends with nothing left to
\* randomise, every device that was not left out of the last search has a short
\* address nobody shares, recorded with the random address it has now, and the
\* result reports it once.  (The other holders of a poll-confirmed random
\* address are taken to have none: one with an invalid address keeps it.)
EveryoneAddressed ==
    ScanDone /\ AllObey =>
        /\ ReportedOnce
        /\ \A d \in {e \in Device \ run.dropped : bus[e].short # Invalid} :
              /\ HeldBy(bus[d].short) = {d}
              /\ bus[d].short \in DOMAIN run.found
              /\ run.found[bus[d].short] = bus[d].rand

\* The same without the exception: the devices put off are searched for as well
\* (smart_extend randomises the groups one after another). The code does not
\* keep this: README, section 3.
DeferredAreFound ==
    ScanDone /\ AllObey => \A d \in Device : bus[d].short \in DOMAIN run.found

\* Nobody else has its random address.
Singular(d) ==
    bus[d].short \in Short /\ bus[d].rand # UNSET /\ \A e \in Device \ {d} : bus[e].rand # bus[d].rand
\* Nobody else has either of its addresses.
Settled(d) == Singular(d) /\ HeldBy(bus[d].short) = {d}
\* Its addresses are the ones the configuration names, and of those who share
\* the short address the configuration knows no other.
Configured(d) ==
    /\ Singular(d)
    /\ bus[d].short \in DOMAIN run.old /\ run.old[bus[d].short] = bus[d].rand
    /\ \A e \in HeldBy(bus[d].short) \ {d} : bus[e].rand \notin Range(run.old)

\* "Preserve current state if it's correct and consistent": no scan writes the
\* short address of a device whose addresses are its own.
SettledKeepAddress ==
    [][\A d \in Device : Settled(d) /\ run.mode = "extend"
                            => bus'[d].short = bus[d].short]_vars

\* "Those in front will preserve their short addresses": of several devices at
\* one short address, the one the configuration knows keeps it. (Of two it knows,
\* the one whose entry comes first does, if it is not the right one: README,
\* section 3.)
ConfiguredKeepAddress ==
    [][\A d \in Device : Configured(d) /\ run.mode = "extend"
                            => bus'[d].short = bus[d].short]_vars

\* "A device will certainly not get an address of one not found yet": an address
\* is programmed only when nobody holds it.
NewAddressIsFree ==
    [][\A d \in Device : bus'[d].short \in Short /\ bus'[d].short # bus[d].short
                            => HeldBy(bus'[d].short) = {}]_vars

\* A search that finds nothing new gives up: every program ends, whatever the
\* bus loses and whoever ignores WITHDRAW.
Terminates == <>(run.pc = "over")
=============================================================================
