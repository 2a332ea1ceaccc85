------------------------------ MODULE Settings ------------------------------
(* The settings of one DALI gear: how the service reads them when it           *)
(* initialises the device, reads ahead in the background, loads the settings   *)
(* page, saves what a client changed and writes the setting of a whole group.  *)
(* Every one of these is a task of the bus loop, which runs them one at a time, *)
(* and consists of exchanges: batches of frames that are repeated when frames  *)
(* or answers are lost, each by the rule of its own helper (wbdali_utils).     *)
(*                                                                             *)
(* A setting has one or two cells in the gear: two scenes stand for the        *)
(* sixteen, two groups for the two queries of eight groups each; "max" stands  *)
(* for the levels, "own" for the numbers a device type brings along.           *)
EXTENDS Integers, Sequences, FiniteSets, SequencesExt

CONSTANTS Gears,       \* what the gear may be: its types, memory bank and cells
          Found,       \* what the cells of a gear hold at first
          Vals,        \* what a client or another master may write to a cell
          Touched,     \* the cells another master may write
          MaxTasks,    \* bound on pages loaded and saved, and group writes
          MaxForeign,  \* bound on changes by another master
          MaxFaulty    \* bound on the batches in which something goes wrong

ASSUME BoundAssumption == MaxTasks \in Nat /\ MaxForeign \in Nat /\ MaxFaulty \in Nat
ASSUME GearAssumption == \A g \in Gears : /\ g.types \in Seq(0 .. 253) /\ g.bank \in Seq(Nat)
                                          /\ g.feature \in {0, 1} /\ g.cells \subseteq DOMAIN Found
ASSUME ValueAssumption == Vals \subseteq 0 .. 2 /\ Vals \cap {0, 1} # {} /\ \A c \in DOMAIN Found : Found[c] \in 0 .. 2

VARIABLES gear,     \* the gear: its cells, its DTR0, its place in the list of types
          h,        \* the parameter handlers of the device
          page,     \* DaliDeviceBase.params
          ready,    \* DaliDeviceBase.is_initialized
          fetch,    \* SettingsFetchScheduler: entries, cursor
          task,     \* the task of the bus loop
          ex,       \* the exchange the task waits for
          doubt,    \* cells the handlers, the page may be wrong about, and why
          left      \* how much of the bounds is left

vars == <<gear, h, page, ready, fetch, task, ex, doubt, left>>

NoAnswer == -1                \* no backward frame; also a cell the gear does not have
Garbled  == -2                \* a framing error
Failed   == -3                \* WbGatewayTransmissionError
Unknown  == -1                \* value is None
Mask     == 2                 \* a scene the gear is not part of
EndOfTypes == 254
ManyTypes  == 255
Retries    == 3               \* MAX_COMMAND_RETRIES

CellsOf == [groups |-> <<"g1", "g2">>, max |-> <<"max">>, fade |-> <<"time", "rate">>, scenes |-> <<"s1", "s2">>,
            curve |-> <<"curve">>, own |-> <<"own">>]
Handlers == <<"groups", "max", "fade", "scenes", "curve", "own">>     \* in the order of _parameter_handlers
Cells    == UNION {Range(CellsOf[s]) : s \in DOMAIN CellsOf}
Optional == {"groups", "max", "fade", "scenes"}
Total    == 2                 \* SCENES_TOTAL
Chunk    == 1                 \* SCENES_FETCH_CHUNK

---------------------------------------------------------------------------
(* The bus and the gear.                                                        *)

DTR0(v)     == [op |-> "dtr", cell |-> "max", arg |-> v]
SetCell(c)  == [op |-> "set", cell |-> c, arg |-> 0]
PutCell(c, v) == [op |-> "put", cell |-> c, arg |-> v]
Query(c)    == [op |-> "query", cell |-> c, arg |-> 0]
Special(op) == [op |-> op, cell |-> "max", arg |-> 0]
IsQuery(cmd) == cmd.op \notin {"dtr", "set", "put"}

Has(g, c) == g.cell[c] # NoAnswer
TypeAnswer(g) == CASE Len(g.types) = 0 -> EndOfTypes [] Len(g.types) = 1 -> g.types[1] [] OTHER -> ManyTypes

(* What the gear does with a command and what it answers. Reading a location of *)
(* the memory moves DTR0 to the next one; asking for the next type moves on too. *)
Obeys(g, cmd) ==
  CASE cmd.op = "dtr" -> [g EXCEPT !.dtr = cmd.arg]
    [] cmd.op = "set" -> IF Has(g, cmd.cell) THEN [g EXCEPT !.cell[cmd.cell] = g.dtr] ELSE g
    [] cmd.op = "put" -> IF Has(g, cmd.cell) THEN [g EXCEPT !.cell[cmd.cell] = cmd.arg] ELSE g
    [] cmd.op = "read" -> [g EXCEPT !.dtr = g.dtr + 1]
    [] cmd.op = "type" -> [g EXCEPT !.at = IF Len(g.types) > 1 THEN 1 ELSE 0]
    [] cmd.op = "next" -> [g EXCEPT !.at = IF g.at \in DOMAIN g.types THEN g.at + 1 ELSE 0]
    [] OTHER -> g
Answers(g, cmd) ==
  CASE cmd.op = "query" -> IF cmd.cell # "fade" THEN g.cell[cmd.cell]
                           ELSE IF Has(g, "time") THEN 16 * g.cell["time"] + g.cell["rate"] ELSE NoAnswer
    [] cmd.op = "feature" -> g.feature
    [] cmd.op = "read"  -> IF g.dtr \in DOMAIN g.bank THEN g.bank[g.dtr] ELSE NoAnswer
    [] cmd.op = "probe" -> IF g.bank = <<>> THEN NoAnswer ELSE Len(g.bank)
    [] cmd.op = "type"  -> TypeAnswer(g)
    [] cmd.op = "next"  -> IF g.at = 0 THEN NoAnswer ELSE IF g.at \in DOMAIN g.types THEN g.types[g.at] ELSE EndOfTypes
    [] OTHER -> NoAnswer

(* What happens to one frame: it is not sent, not heard by the gear, its answer *)
(* is lost or garbled (without the cases that come to the same: there is no     *)
(* answer to a command, and what only asks may be heard or not); and to a       *)
(* batch: one of these to one frame, nothing of it can be sent, or the gear is  *)
(* off.                                                                         *)
Faults(cmd) == CASE ~IsQuery(cmd) -> {"failed", "unheard"}
                 [] cmd.op \in {"read", "next"} -> {"failed", "unheard", "lost", "garbled"}
                 [] OTHER -> {"lost", "garbled"}
Plans(cmds) == LET n == Len(cmds) IN
  {[i \in 1 .. n |-> f] : f \in {"ok", "failed", "unheard"}}
  \cup UNION {{[i \in 1 .. n |-> IF i = k THEN f ELSE "ok"] : f \in Faults(cmds[k])} : k \in 1 .. n}
Frame(g, cmd, fault) ==
  LET heard == fault \notin {"failed", "unheard"} IN
  [gear |-> IF heard THEN Obeys(g, cmd) ELSE g,
   ans  |-> CASE fault = "failed" -> Failed
              [] fault \in {"unheard", "lost"} \/ ~IsQuery(cmd) \/ Answers(g, cmd) = NoAnswer -> NoAnswer
              [] fault = "garbled" -> Garbled
              [] OTHER -> Answers(g, cmd)]
Batch(g, cmds, plan) ==
  FoldLeft(LAMBDA b, i : LET f == Frame(b.gear, cmds[i], plan[i]) IN [gear |-> f.gear, ans |-> Append(b.ans, f.ans)],
           [gear |-> g, ans |-> <<>>], [i \in 1 .. Len(cmds) |-> i])

---------------------------------------------------------------------------
(* The helpers that send a batch and repeat it.                                 *)

(* check_command_failed: "none", or the sort of failure.                        *)
CheckCommandFailed(cmd, a) ==
  CASE a = Failed -> "error"
    [] IsQuery(cmd) /\ a = NoAnswer -> "silent"
    [] IsQuery(cmd) /\ a = Garbled -> "error"
    [] OTHER -> "none"

Idle == [how |-> "idle", cmds |-> <<>>, pend |-> <<>>, ans |-> <<>>, tries |-> 0, size |-> 1,
         res |-> "running", silent |-> TRUE, clean |-> TRUE, heard |-> TRUE, acc |-> <<>>]
Exchange(how, cmds, size) ==
  [Idle EXCEPT !.how = how, !.cmds = cmds, !.pend = [i \in 1 .. Len(cmds) |-> i],
               !.ans = [i \in 1 .. Len(cmds) |-> NoAnswer], !.size = size]

Pending(e) == [i \in 1 .. Len(e.pend) |-> e.cmds[e.pend[i]]]
Failure(e, got, i) == CheckCommandFailed(e.cmds[e.pend[i]], got[i])
Failures(e, got) == {i \in DOMAIN e.pend : Failure(e, got, i) # "none"}
FirstFailed(e, got) == CHOOSE i \in Failures(e, got) : \A j \in Failures(e, got) : i <= j
(* The answers of the commands at the given places of the batch are kept.       *)
Kept(e, got, places) == [k \in DOMAIN e.ans |-> IF \E i \in places : e.pend[i] = k
                                               THEN got[CHOOSE i \in places : e.pend[i] = k] ELSE e.ans[k]]
(* _query_failure_error, of the failures it is given.                           *)
FailureError(sorts) == IF sorts = {"silent"} THEN "noanswer" ELSE "error"
(* One more attempt, or the failure.                                            *)
Again(e, pend, sorts) == [e EXCEPT !.tries = @ + 1, !.pend = pend,
                                   !.res = IF e.tries + 1 = Retries THEN FailureError(sorts) ELSE "running"]

(* query_response, query_responses: everything once more; the failure is the    *)
(* first one of the last attempt.                                               *)
QueryResponses(e, got) ==
  IF Failures(e, got) = {} THEN [e EXCEPT !.ans = Kept(e, got, DOMAIN e.pend), !.res = "ok"]
  ELSE Again(e, e.pend, {Failure(e, got, FirstFailed(e, got))})

\* Seeded fault: the retry starts at the failed command, inside its group.
RetryInsideGroup(e, got) ==
  IF Failures(e, got) = {} THEN [e EXCEPT !.ans = Kept(e, got, DOMAIN e.pend), !.res = "ok"]
  ELSE LET p == FirstFailed(e, got) IN
       Again([e EXCEPT !.ans = Kept(e, got, 1 .. p - 1)], SubSeq(e.pend, p, Len(e.pend)), {Failure(e, got, p)})
(* query_responses_retry_from_first_failed: from the first command of the group *)
(* of `size` commands in which the first failure is.                            *)
RetryFromFirstFailed(e, got) ==
  IF Failures(e, got) = {} THEN [e EXCEPT !.ans = Kept(e, got, DOMAIN e.pend), !.res = "ok"]
  ELSE LET p == FirstFailed(e, got)
           from == p - ((p - 1) % e.size)
       IN Again([e EXCEPT !.ans = Kept(e, got, 1 .. p - 1)], SubSeq(e.pend, from, Len(e.pend)), {Failure(e, got, p)})

(* query_responses_retry_only_failed: the commands that failed.                 *)
RetryOnlyFailed(e, got) ==
  LET bad == Failures(e, got)
      e2  == [e EXCEPT !.ans = Kept(e, got, DOMAIN e.pend \ bad)]
  IN IF bad = {} THEN [e2 EXCEPT !.res = "ok"]
     ELSE Again(e2, SelectSeq(e.pend, LAMBDA k : \E i \in bad : e.pend[i] = k), {Failure(e, got, i) : i \in bad})

(* send_with_retry, send_commands_with_retry: everything once more while some   *)
(* frame was not sent; the caller is not told.                                  *)
SendCommandsWithRetry(e, got) ==
  IF Failed \notin Range(got) \/ e.tries + 1 = Retries THEN [e EXCEPT !.ans = Kept(e, got, DOMAIN e.pend), !.res = "ok"]
  ELSE [e EXCEPT !.tries = @ + 1]

(* query_device_types_sequence: the type, then the next ones in ascending       *)
(* order. A garbled next type is not asked for again, the gear has moved on.    *)
NextType(e) == [e EXCEPT !.cmds = <<Special("next")>>, !.tries = 0, !.silent = TRUE]
Refused(e) == [e EXCEPT !.res = "error"]
TypeGarbled(e, got) ==
  IF e.cmds[1].op = "next" THEN Refused(e)
  ELSE [e EXCEPT !.tries = @ + 1, !.silent = FALSE, !.res = IF e.tries + 1 = Retries THEN "error" ELSE "running"]
TypeUnanswered(e, got) ==
  LET silent == e.silent /\ got[1] = NoAnswer IN
  IF e.tries + 1 < Retries THEN [e EXCEPT !.tries = @ + 1, !.silent = silent]
  ELSE IF silent /\ e.acc # <<>> THEN [e EXCEPT !.res = "ok", !.heard = FALSE]
  ELSE [e EXCEPT !.res = IF silent THEN "noanswer" ELSE "error"]
DeviceTypes(e, got) ==
  CASE got[1] = Garbled -> TypeGarbled(e, got)
    [] got[1] \in {Failed, NoAnswer} -> TypeUnanswered(e, got)
    [] e.cmds[1].op = "type" /\ got[1] < EndOfTypes -> [e EXCEPT !.acc = <<got[1]>>, !.res = "ok"]
    [] e.cmds[1].op = "type" /\ got[1] = EndOfTypes -> [e EXCEPT !.res = "ok"]
    [] e.cmds[1].op = "type" -> NextType(e)
    [] got[1] = EndOfTypes -> IF e.acc = <<>> THEN Refused(e) ELSE [e EXCEPT !.res = "ok"]
    [] e.acc # <<>> /\ got[1] <= Last(e.acc) -> Refused(e)
    [] OTHER -> NextType([e EXCEPT !.acc = Append(@, got[1])])

(* read_memory_bank: the last address, DTR0 at the first location not read yet, *)
(* then all the locations in one batch; a location that failed is where the     *)
(* next round begins, one that was not answered counts as not implemented.      *)
Seek(e, last, done) == [e EXCEPT !.cmds = <<DTR0(Len(done) + 1)>>, !.pend = <<1>>, !.acc = done, !.tries = 0, !.size = last]
Probed(e, got) ==
  IF got[1] >= 0 THEN Seek(e, got[1], <<>>)
  ELSE [e EXCEPT !.tries = @ + 1,
                 !.res = IF e.tries + 1 < Retries THEN "running" ELSE IF got[1] = NoAnswer THEN "noanswer" ELSE "error"]
Sought(e, got) ==
  IF got[1] # Failed THEN [e EXCEPT !.cmds = [i \in 1 .. e.size - Len(e.acc) |-> Special("read")],
                                    !.pend = [i \in 1 .. e.size - Len(e.acc) |-> i]]
  ELSE [e EXCEPT !.tries = @ + 1, !.res = IF e.tries + 1 = Retries THEN "error" ELSE "running"]
BankRead(e, got) ==
  LET bad  == {i \in DOMAIN got : got[i] \in {Failed, Garbled}}
      good == IF bad = {} THEN Len(got) ELSE (CHOOSE i \in bad : \A j \in bad : i <= j) - 1
      e2   == [e EXCEPT !.ans = Append(@, good)]       \* one round more
  IN IF bad = {} THEN [e2 EXCEPT !.acc = @ \o got, !.res = "ok"]
     ELSE IF Len(e2.ans) = Retries THEN [e2 EXCEPT !.res = "error"]
     ELSE Seek(e2, e.size, e.acc \o SubSeq(got, 1, good))
ReadMemoryBank(e, got) ==
  CASE e.cmds[1].op = "probe" -> Probed(e, got)
    [] e.cmds[1].op = "dtr"   -> Sought(e, got)
    [] OTHER                  -> BankRead(e, got)

Rule(e, got) ==
  CASE e.how = "whole" -> QueryResponses(e, got)
    [] e.how = "first" -> RetryFromFirstFailed(e, got)
    [] e.how = "only"  -> RetryOnlyFailed(e, got)
    [] e.how = "send"  -> SendCommandsWithRetry(e, got)
    [] e.how = "types" -> DeviceTypes(e, got)
    [] e.how = "bank"  -> ReadMemoryBank(e, got)

---------------------------------------------------------------------------
(* The parameter handlers. `h` holds what they remember: the value of every     *)
(* cell, which optional settings were answered and which are taken for absent,  *)
(* whether the curve is only assumed, how far the scenes have been read.        *)

Fresh == [val |-> [c \in Cells |-> CASE c \in {"s1", "s2"} -> Mask [] c \in {"g1", "g2"} -> 0 [] OTHER -> Unknown],
          answered |-> {}, absent |-> {}, assumed |-> FALSE, cursor |-> 0, types |-> <<>>, feature |-> 0, mem |-> <<>>]
(* The handlers of groups, level and fade live as long as the device, the       *)
(* others are made anew by every attempt to initialise it.                      *)
Lasting == {"groups", "max", "fade"}
Renewed == [Fresh EXCEPT !.val = [c \in Cells |-> IF \E s \in Lasting : c \in Range(CellsOf[s]) THEN h.val[c] ELSE @[c]],
                         !.answered = h.answered \cap Lasting, !.absent = h.absent \cap Lasting]

(* What a device type brings along: a query of its features at initialisation,  *)
(* a dimming curve, numbers of its own; the last two may depend on the feature. *)
Type1  == [asks |-> TRUE,  curve |-> FALSE, own |-> TRUE]
Type4  == [asks |-> FALSE, curve |-> TRUE,  own |-> FALSE]
Type5  == [asks |-> TRUE,  curve |-> TRUE,  own |-> FALSE]
Type6  == [asks |-> FALSE, curve |-> TRUE,  own |-> FALSE]
Type7  == [asks |-> TRUE,  curve |-> FALSE, own |-> TRUE]
Type17 == [asks |-> FALSE, curve |-> TRUE,  own |-> FALSE]
Type20 == [asks |-> FALSE, curve |-> FALSE, own |-> TRUE]
Other  == [asks |-> FALSE, curve |-> FALSE, own |-> FALSE]
TypeParameters(n) == CASE n = 1 -> Type1 [] n = 4 -> Type4 [] n = 5 -> Type5 [] n = 6 -> Type6
                       [] n = 7 -> Type7 [] n = 17 -> Type17 [] n = 20 -> Type20 [] OTHER -> Other
(* The handler has a curve that can be asked for; it has numbers of its own.    *)
Brings(hh, n) == TypeParameters(n).asks => hh.feature = 1
Curve(hh) == \E n \in Range(hh.types) : TypeParameters(n).curve /\ Brings(hh, n)
Own(hh)   == \E n \in Range(hh.types) : TypeParameters(n).own /\ Brings(hh, n)
(* read_mandatory_info of the types in turn, then groups and fade.              *)
Mandatory(types) == FlattenSeq([i \in 1 .. Len(types) |->
                      (IF TypeParameters(types[i]).asks THEN <<"feature">> ELSE <<>>)
                      \o (IF TypeParameters(types[i]).curve THEN <<"curve">> ELSE <<>>)]) \o <<"groups", "fade">>

(* ScenesParam._scenes_to_json and back, as write does it.                      *)
ToJson(c, v) == IF c \in {"s1", "s2"} /\ v = Mask THEN [enabled |-> FALSE, level |-> 0] ELSE [enabled |-> TRUE, level |-> v]
FromJson(c, j) == IF c \in {"s1", "s2"} /\ ~j.enabled THEN Mask ELSE j.level

(* get_schema: the values the page accepts for a cell of the setting, none when *)
(* the setting is not shown. A scene may be switched off; a curve that is only  *)
(* assumed is shown read-only.                                                  *)
NumberSchema      == Vals \cap {0, 1}
OptionalSchema(s, hh) == IF s \in hh.absent THEN {} ELSE NumberSchema
FadeSchema(hh)    == IF "fade" \in hh.absent THEN {} ELSE NumberSchema
GroupsSchema(hh)  == IF "groups" \in hh.absent THEN {} ELSE NumberSchema
ScenesSchema(hh)  == IF "scenes" \in hh.absent THEN {} ELSE Vals
GroupScenesSchema == Vals
CurveSchema       == NumberSchema
Schema(s, hh) == CASE s = "fade" -> FadeSchema(hh) [] s = "groups" -> GroupsSchema(hh) [] s = "scenes" -> ScenesSchema(hh)
                   [] s = "curve" -> CurveSchema [] s = "own" -> IF Own(hh) THEN NumberSchema ELSE {}
                   [] OTHER -> OptionalSchema(s, hh)

Scene(c) == IF c = "s1" THEN 1 ELSE 2
Queries(cells) == [i \in 1 .. Len(cells) |-> Query(cells[i])]

(* The exchanges of read, and of one background step of the scenes.             *)
ChunkEnd == IF h.cursor + Chunk < Total THEN h.cursor + Chunk ELSE Total
ReadTypes == Exchange("types", <<Special("type")>>, 1)
ReadFeature == Exchange("whole", <<Special("feature")>>, 1)
ReadMem == [Exchange("bank", <<Special("probe")>>, 1) EXCEPT !.ans = <<>>]
ReadNumber(c) == Exchange("whole", <<Query(c)>>, 1)
ReadFade == Exchange("whole", <<Query("fade")>>, 1)
ReadGroups == Exchange("only", Queries(CellsOf.groups), 1)
ReadScenes(from, to) == Exchange("only", Queries(SubSeq(CellsOf.scenes, from, to)), 1)
ReadExchange(s) ==
  CASE s = "types" -> ReadTypes
    [] s = "feature" -> ReadFeature
    [] s = "mem" -> ReadMem
    [] s = "fade" -> ReadFade
    [] s = "groups" -> ReadGroups
    [] s = "scenes" -> IF task.op = "fetch" THEN ReadScenes(h.cursor + 1, ChunkEnd) ELSE ReadScenes(1, Total)
    [] OTHER -> ReadNumber(CellsOf[s][1])

(* The cells a save would change, as the handler sees it.                       *)
Differ(s) == SelectSeq(CellsOf[s], LAMBDA c : h.val[c] # task.asked[c])
(* write returns at once: absent, only assumed, or equal.                       *)
WriteSkipped(s) == \/ s = "curve" /\ (h.assumed \/ ~Curve(h))
                   \/ s \in h.absent
                   \/ Differ(s) = <<>>
Store(c) == <<DTR0(task.asked[c]), SetCell(c)>>
WriteNumber(c) == Exchange("whole", Store(c) \o <<Query(c)>>, 1)
WriteFade == Exchange("whole", Store("time") \o Store("rate") \o <<Query("fade")>>, 1)
WriteGroups == Exchange("first", [i \in 1 .. Len(Differ("groups")) |-> PutCell(Differ("groups")[i], task.asked[Differ("groups")[i]])]
                                 \o Queries(CellsOf.groups), 1)
WriteScenes == Exchange("first", FlattenSeq([i \in 1 .. Len(Differ("scenes")) |->
                                   Store(Differ("scenes")[i]) \o <<Query(Differ("scenes")[i])>>]), 3)
WriteExchange(s) == CASE s = "fade" -> WriteFade [] s = "groups" -> WriteGroups [] s = "scenes" -> WriteScenes
                      [] OTHER -> WriteNumber(CellsOf[s][1])

(* The write to the address of the group: level and fade have handlers of their *)
(* own there, the types share the ones of the device, the scenes go out in one  *)
(* batch.                                                                       *)
GroupSkipped(s) == s = "curve" /\ (h.assumed \/ ~Curve(h))
Sent(s) == CHOOSE c \in Range(CellsOf[s]) : task.asked[c] # Unknown
GroupNumber(s) == Exchange("whole", Store(Sent(s)), 1)
GroupScenes == Exchange("send", FlattenSeq([i \in 1 .. Len(CellsOf.scenes) |-> Store(CellsOf.scenes[i])]), 1)
GroupExchange(s) == IF s = "scenes" THEN GroupScenes ELSE GroupNumber(s)

(* What read, fetch and write remember of the answers.                          *)
Answer(c) == LET i == CHOOSE k \in 1 .. Len(ex.cmds) : ex.cmds[k] = Query(c) IN ex.ans[i]
Told == {c \in Cells \cup {"fade"} : \E i \in 1 .. Len(ex.cmds) : ex.cmds[i] = Query(c)}
Values == [c \in Cells |-> CASE c \in Told -> Answer(c)
                             [] c = "time" /\ "fade" \in Told -> Answer("fade") \div 16
                             [] c = "rate" /\ "fade" \in Told -> Answer("fade") % 16
                             [] OTHER -> h.val[c]]
Answered(s) == [h EXCEPT !.val = Values, !.answered = @ \cup ({s} \cap Optional), !.absent = @ \ {s},
                         !.assumed = @ /\ s # "curve"]
AssumeStandardCurve(hh) == [hh EXCEPT !.val["curve"] = 0, !.assumed = TRUE]
(* OptionalSetting.note_absent.                                                 *)
NoteAbsent(s) == s \in Optional /\ s \notin h.answered
(* DimmingCurveParam.read on silence: the standard curve, unless the gear has   *)
(* reported one.                                                                *)
CurveSilent == h.val["curve"] = Unknown \/ h.assumed

(* After the last exchange of the handler at the head of the list: whether it   *)
(* raises, and what it remembers.                                               *)
Readable(s) == \/ ex.res = "ok"
               \/ /\ ex.res = "noanswer"
                  /\ s = "mem" \/ NoteAbsent(s) \/ (s = "curve" /\ CurveSilent)
AfterRead(s) ==
  CASE s = "mem" -> [h EXCEPT !.mem = IF ex.res = "ok" THEN ex.acc ELSE <<>>]
    [] ex.res = "noanswer" -> IF s = "curve" THEN AssumeStandardCurve(h) ELSE [h EXCEPT !.absent = @ \cup {s}]
    [] s = "types" -> [h EXCEPT !.types = ex.acc]
    [] s = "feature" -> [h EXCEPT !.feature = ex.ans[1]]
    [] s = "scenes" -> [Answered(s) EXCEPT !.cursor = IF task.op = "fetch" THEN ChunkEnd ELSE Total]
    [] OTHER -> Answered(s)
\* Seeded fault: the handler remembers what it wrote, not what it read back.
RemembersAsked(s) == [h EXCEPT !.val = [c \in Cells |-> IF c \in Range(CellsOf[s]) THEN task.asked[c] ELSE @[c]]]
AfterWrite(s) == [h EXCEPT !.val = Values]

---------------------------------------------------------------------------
(* The tasks of the bus loop.                                                   *)

Rest == [op |-> "idle", todo |-> <<>>, asked |-> [c \in Cells |-> Unknown], failed |-> FALSE, upd |-> {}, heard |-> TRUE]
NoPage == [on |-> FALSE, cell |-> [c \in Cells |-> ToJson(c, 0)], shown |-> {}, mem |-> <<>>]

Begin(op, todo, asked) == /\ task.op = "idle"
                          /\ task' = [Rest EXCEPT !.op = op, !.todo = todo, !.asked = asked]
                          /\ UNCHANGED <<gear, h, page, ready, fetch, ex, doubt>>

(* _initialize_impl, as far as settings go; the handlers start anew.            *)
Initialize == /\ ~ready
              /\ task.op = "idle"
              /\ h' = Renewed
              /\ task' = [Rest EXCEPT !.op = "init", !.todo = <<"types">>]
              /\ UNCHANGED <<gear, page, ready, fetch, ex, doubt, left>>
(* load_info reads every handler; GetDevice asks for it, with or without        *)
(* forceReload.                                                                 *)
LoadInfo == /\ ready /\ left.tasks > 0
            /\ left' = [left EXCEPT !.tasks = @ - 1]
            /\ Begin("load", <<"mem">> \o Handlers, Rest.asked)
(* apply_parameters: a client sends back the page with one setting changed.     *)
ApplyParameters == /\ page.on /\ left.tasks > 0
                   /\ left' = [left EXCEPT !.tasks = @ - 1]
                   /\ \E s \in page.shown \ {"mem"} : \E new \in [Range(CellsOf[s]) -> Schema(s, h)] :
                        /\ \E c \in DOMAIN new : new[c] # FromJson(c, page.cell[c])
                        /\ Begin("apply", Handlers,
                                 [x \in Cells |-> IF x \in DOMAIN new THEN new[x] ELSE FromJson(x, page.cell[x])])
(* _apply_group_parameters_task with this gear as a member, one setting: a      *)
(* number, or the list of scenes. None of these is one whose handler            *)
(* sync_controls_after_broadcast would read again.                              *)
GroupValues == [Range(CellsOf.scenes) -> GroupScenesSchema] \cup UNION {[{c} -> NumberSchema] : c \in {"max", "time", "rate", "curve"}}
SettingOf(cells) == CHOOSE s \in {"max", "fade", "scenes", "curve"} : cells \subseteq Range(CellsOf[s])
ApplyGroupParameters == /\ ready /\ left.tasks > 0
                        /\ left' = [left EXCEPT !.tasks = @ - 1]
                        /\ \E new \in GroupValues : Begin("group", <<SettingOf(DOMAIN new)>>,
                                                           [x \in Cells |-> IF x \in DOMAIN new THEN new[x] ELSE Unknown])
(* SettingsFetchScheduler.fetch_step: one background read.                      *)
FetchEntry == fetch.entries[(fetch.cursor % Len(fetch.entries)) + 1]
FetchStep == /\ ready /\ fetch.entries # <<>>
             /\ UNCHANGED left
             /\ Begin("fetch", <<FetchEntry>>, Rest.asked)

(* The handlers that have nothing to send return at once; the exchange of the   *)
(* next one begins.                                                             *)
Skipped(s) == CASE task.op = "apply" -> s \notin page.shown \/ WriteSkipped(s)
                [] task.op = "group" -> GroupSkipped(s)
                [] OTHER -> \/ s = "curve" /\ ~Curve(h)
                            \/ s = "own" /\ ~Own(h)
                            \/ task.op = "fetch" /\ s = "scenes" /\ h.cursor >= Total
ExchangeFor(s) == CASE task.op = "apply" -> WriteExchange(s) [] task.op = "group" -> GroupExchange(s) [] OTHER -> ReadExchange(s)
Written(e) == {e.cmds[i].cell : i \in {j \in 1 .. Len(e.cmds) : e.cmds[j].op \in {"set", "put"}}}
Handle == /\ task.op # "idle" /\ task.todo # <<>> /\ ex.how = "idle"
          /\ LET k == SelectInSeq(task.todo, LAMBDA s : ~Skipped(s))
                 passed == IF k = 0 THEN task.todo ELSE SubSeq(task.todo, 1, k - 1)
                 e == IF k = 0 THEN Idle ELSE ExchangeFor(task.todo[k])
             IN /\ h' = IF task.op = "load" /\ "curve" \in Range(passed) THEN AssumeStandardCurve(h) ELSE h
                /\ task' = [task EXCEPT !.todo = IF k = 0 THEN <<>> ELSE SubSeq(@, k, Len(@))]
                /\ ex' = e
                /\ doubt' = [doubt EXCEPT !.handler = @ \cup Written(e), !.page = @ \cup Written(e)]
          /\ UNCHANGED <<gear, page, ready, fetch, left>>

(* A fault no answer tells of: the gear did not hear a frame that is not        *)
(* answered, or moved on although its answer did not arrive.                    *)
Unnoticed(cmd, fault) == \/ fault = "unheard" /\ (~IsQuery(cmd) \/ cmd.op = "read")
                         \/ fault = "lost" /\ cmd.op = "next"

(* One attempt of the exchange: a batch goes out, the helper looks at the       *)
(* answers.                                                                     *)
Attempt == /\ ex.how # "idle" /\ ex.res = "running"
           /\ LET cmds == Pending(ex) IN
              \E plan \in Plans(cmds) :
                LET b == Batch(gear, cmds, plan)
                    e == [ex EXCEPT !.heard = @ /\ \A i \in DOMAIN cmds : ~Unnoticed(cmds[i], plan[i])]
                    spent == IF Range(plan) = {"ok"} THEN 0 ELSE 1
                IN /\ left.faulty >= spent
                   /\ left' = [left EXCEPT !.faulty = @ - spent]
                   /\ gear' = b.gear
                   /\ ex' = Rule(e, b.ans)
           /\ UNCHANGED <<h, page, ready, fetch, task, doubt>>

(* The await returns: the handler at the head of the list goes on. A failed     *)
(* read of load_info does not keep the others from being read; a failed write,  *)
(* and a failed read of the initialisation, ends the task.                      *)
Resume == /\ ex.how # "idle" /\ ex.res # "running"
          /\ LET s == Head(task.todo)
                 writes == task.op \in {"apply", "group"}
                 ok == IF writes THEN ex.res = "ok" ELSE Readable(s)
                 told == IF ok /\ ex.res = "ok" /\ ex.clean /\ task.op # "group"
                         THEN Told \cup IF "fade" \in Told THEN {"time", "rate"} ELSE {} ELSE {}
                 torn == IF s \in {"mem", "types"} /\ (~ex.heard \/ ~ex.clean) THEN {s} ELSE {}
             IN /\ h' = CASE ~ok \/ task.op = "group" -> h
                          [] task.op = "apply" -> AfterWrite(s)
                          [] OTHER -> AfterRead(s)
                /\ task' = [task EXCEPT !.todo = CASE ok /\ s = "types" -> Mandatory(ex.acc)
                                                      [] ok \/ task.op = "load" -> Tail(@)
                                                      [] OTHER -> <<>>,
                                        !.failed = @ \/ ~ok, !.heard = @ /\ (ex.heard \/ task.op # "apply"),
                                        !.upd = IF task.op = "apply" /\ ok THEN @ \cup {s} ELSE @]
                /\ doubt' = [doubt EXCEPT !.handler = ((@ \ told) \ ({s} \cap {"mem", "types"})) \cup torn]
          /\ ex' = Idle
          /\ UNCHANGED <<gear, page, ready, fetch, left>>

(* The task is over: what load_info, apply_parameters, sync_controls_after_     *)
(* broadcast and fetch_step do with the outcome.                                *)
Shows(hh) == {s \in DOMAIN CellsOf : Schema(s, hh) # {}} \cup {"mem"}
LoadedPage == [on |-> TRUE, cell |-> [c \in Cells |-> ToJson(c, h.val[c])], shown |-> Shows(h), mem |-> h.mem]
UpdatedCells == UNION {Range(CellsOf[s]) : s \in task.upd}
UpdatedPage == [page EXCEPT !.cell = [c \in Cells |-> IF c \in UpdatedCells THEN ToJson(c, h.val[c]) ELSE @[c]]]
(* has_changes: scenes and fade count as changed whenever they are sent.        *)
HasChanges == \E c \in Cells : task.asked[c] # Unknown /\ (c \in {"s1", "s2", "time", "rate"} \/ h.val[c] # task.asked[c])
FetchDone(s) == s # "scenes" \/ s \in h.absent \/ h.cursor >= Total
Fetched == LET idx == fetch.cursor % Len(fetch.entries) IN
  IF task.failed \/ FetchDone(FetchEntry)
  THEN [entries |-> RemoveAt(fetch.entries, idx + 1), cursor |-> idx]
  ELSE [fetch EXCEPT !.cursor = idx + 1]
Finish == /\ task.op # "idle" /\ task.todo = <<>> /\ ex.how = "idle"
          /\ task' = Rest
          /\ ready' = (ready \/ (task.op = "init" /\ ~task.failed))
          /\ page' = CASE task.op = "load" /\ ~task.failed -> LoadedPage
                       [] task.op = "apply" /\ ~task.failed -> UpdatedPage
                       [] task.op = "group" /\ ~task.failed /\ HasChanges -> NoPage
                       [] OTHER -> page
          /\ fetch' = CASE task.op = "init" /\ ~task.failed -> [entries |-> <<"max", "scenes">>, cursor |-> 0]
                        [] task.op = "fetch" -> Fetched
                        [] OTHER -> fetch
          /\ doubt' = CASE task.op = "load" /\ ~task.failed -> [doubt EXCEPT !.page = doubt.handler]
                        [] task.op = "apply" /\ ~task.failed -> [doubt EXCEPT !.page = @ \ (UpdatedCells \ doubt.handler)]
                        [] OTHER -> doubt
          /\ UNCHANGED <<gear, h, ex, left>>

(* Another master writes a cell of the gear, and leaves the value in DTR0. The  *)
(* service takes no time on the bus between two exchanges of a task; before the *)
(* first one is done, a change is but another first value.                      *)
Foreign == /\ left.foreign > 0 /\ ready
           /\ ex.res = "running" /\ (ex.how = "idle" => task.op = "idle")
           /\ left' = [left EXCEPT !.foreign = @ - 1]
           /\ \E c \in Touched, v \in Vals \ {Mask} :
                /\ Has(gear, c)
                /\ gear' = [gear EXCEPT !.dtr = v, !.cell[c] = v]
                /\ doubt' = [handler |-> doubt.handler \cup {c}, page |-> doubt.page \cup {c}]
           /\ ex' = IF ex.how = "idle" THEN ex ELSE [ex EXCEPT !.clean = FALSE]
           /\ UNCHANGED <<h, page, ready, fetch, task>>

Init == /\ \E g \in Gears : gear = [types |-> g.types, bank |-> g.bank, feature |-> g.feature, at |-> 0, dtr |-> 0,
                                    cell |-> [c \in Cells |-> IF c \in g.cells THEN Found[c] ELSE NoAnswer]]
        /\ h = Fresh
        /\ page = NoPage
        /\ ready = FALSE
        /\ fetch = [entries |-> <<>>, cursor |-> 0]
        /\ task = Rest
        /\ ex = Idle
        /\ doubt = [handler |-> {}, page |-> {}]
        /\ left = [tasks |-> MaxTasks, foreign |-> MaxForeign, faulty |-> MaxFaulty]

Next == Initialize \/ LoadInfo \/ ApplyParameters \/ ApplyGroupParameters \/ FetchStep
        \/ Handle \/ Attempt \/ Resume \/ Finish \/ Foreign
Spec == Init /\ [][Next]_vars

---------------------------------------------------------------------------
TypeOK == /\ gear.dtr \in Nat /\ gear.at \in Nat /\ gear.cell \in [Cells -> Nat \cup {NoAnswer}]
          /\ h.val \in [Cells -> Nat \cup {Unknown}] /\ h.cursor \in 0 .. Total
          /\ h.answered \subseteq Optional /\ h.absent \subseteq Optional /\ h.assumed \in BOOLEAN
          /\ page.on \in BOOLEAN /\ page.shown \subseteq DOMAIN CellsOf \cup {"mem"}
          /\ ready \in BOOLEAN
          /\ Range(fetch.entries) \subseteq Optional
          /\ ex.res \in {"running", "ok", "noanswer", "error"} /\ ex.tries \in 0 .. Retries

(* What a handler remembers and may use for predictions (fade, levels, scenes   *)
(* read so far, the curve) is what the gear holds, whatever frames and answers  *)
(* were lost on the way, until another master, a group write or a failed save   *)
(* changed the gear behind its back.                                            *)
Knows(c) == CASE c \in {"s1", "s2"} -> "scenes" \in h.answered /\ Scene(c) <= h.cursor
              [] c \in {"g1", "g2"} -> "groups" \in h.answered
              [] c = "curve" -> h.val["curve"] # Unknown /\ ~h.assumed
              [] OTHER -> h.val[c] # Unknown
HandlerKnowsGear == \A c \in Cells : Knows(c) /\ c \notin doubt.handler => h.val[c] = gear.cell[c]

(* A settings page shows what the gear holds, and for the memory bank what its  *)
(* locations hold or that they are not implemented.                             *)
Really(c) == c # "curve" \/ ~h.assumed
PageShowsGear == page.on => /\ \A s \in page.shown \ {"mem"} : \A c \in Range(CellsOf[s]) :
                                c \notin doubt.page /\ Really(c) => FromJson(c, page.cell[c]) = gear.cell[c]
                            /\ "mem" \notin doubt.page => \A i \in DOMAIN page.mem : page.mem[i] \in {NoAnswer, gear.bank[i]}

(* What the service knows of the gear, for its predictions and on the page, is  *)
(* what the gear holds.                                                         *)
KnownIsHeld == HandlerKnowsGear /\ PageShowsGear

(* When a save succeeds and the gear heard each of its frames (task.heard: what *)
(* is read back is remembered, not compared, so a frame the gear missed goes    *)
(* unnoticed), the gear holds every value of the page that was sent, however    *)
(* often its batches had to be repeated for answers that were lost, and         *)
(* whatever another master left in DTR0 before.                                 *)
SavedIsHeld == task.op = "apply" /\ task.todo = <<>> /\ ~task.failed /\ task.heard =>
                 \A s \in page.shown \ {"mem"} : \A c \in Range(CellsOf[s]) :
                    c \notin doubt.handler /\ Really(c) /\ s \notin h.absent => gear.cell[c] = task.asked[c]

=============================================================================
