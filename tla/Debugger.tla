------------------------------ MODULE Debugger ------------------------------
(***************************************************************************)
(* The visual debugger (testbench/visual_c_hooks.cpp): a child process     *)
(* that reads, over a pipe, one dump of the processor's signals per clock  *)
(* edge, keeps the last NUM_HISTORY of them in a ring, and lets its user   *)
(* step, go back, jump to a time, or run; over a second pipe it tells the  *)
(* testbench (testbench/visual_testbench.v), which waits after every dump, *)
(* to go on.  A value of a dump is the number of its edge.  No value has   *)
(* been read into a slot that holds Nothing.  A DONE that ends a run may   *)
(* kill the child (Dies); the testbench then reads the end of the pipe for *)
(* ever (Spins).                                                           *)
(***************************************************************************)
EXTENDS Integers, Sequences, SequencesExt, FiniteSets

CONSTANTS
  NUM_HISTORY,  \* slots of the ring
  Dump,         \* the prefixes of a dump's lines, in order, before "break"
  MaxEdge,      \* bound: edges of a simulation
  Times         \* the times and cycles the user asks for

ASSUME DebuggerAssumption ==
  /\ NUM_HISTORY \in Nat \ {0, 1} /\ MaxEdge \in Nat \ {0}
  /\ Times \subseteq Nat
  /\ Dump \in Seq(STRING) /\ {"c", "t"} \subseteq ToSet(Dump)
  /\ ToSet(Dump) \cap {"break", "DONE"} = {}

VARIABLES
  history_num,      \* the slot the next dump goes to
  hist_num_temp,    \* the slot the user is looking at
  time_wrapped, echo_data, running, goto_flag, cycle_flag, stop_time, done_received,
  i,                \* the loop variable the search for a time shares
  setup_registers,  \* the registers' names and places are known
  reg_names,        \* the registers known
  reg_num,          \* the next register of each group
  contents,         \* the ring: a dump per slot
  screen,           \* the slot parsedata was last asked for, and the values drawn last
  pc,               \* the child: "read", "key", "exit" or "crashed"
  readpipe,         \* the bytes to the testbench
  writepipe,        \* the lines to the debugger
  tb,               \* the testbench: "run", "wait", "done" or "finished"
  edge              \* edges dumped

userVars == <<hist_num_temp, echo_data, running, goto_flag, cycle_flag, stop_time, i>>
inputVars == <<setup_registers, reg_names, reg_num, contents>>
ringVars == <<history_num, time_wrapped, done_received>>
tbVars == <<tb, edge>>
debuggerVars == <<userVars, inputVars, ringVars, tbVars, screen, pc, readpipe, writepipe>>

Nothing == 0
Slots == 0 .. NUM_HISTORY - 1
Keys == {"n", "b", "r", "p", "q", "g", "c", "ERR"}
Scalars == {"t", "c", "z", "a", "p"}
Groups == ToSet(Dump) \ Scalars
Registers == UNION {{g} \X (0 .. Cardinality({k \in DOMAIN Dump : Dump[k] = g}) - 1) : g \in Groups}
Signals == ((ToSet(Dump) \cap Scalars) \X {0}) \cup Registers

\* C's remainder, which truncates towards 0.
Rem(a, n) == IF a < 0 THEN -((-a) % n) ELSE a % n

DebuggerInit ==
  /\ history_num = 0 /\ hist_num_temp = 0
  /\ time_wrapped = 0 /\ echo_data = 1 /\ running = 0 /\ goto_flag = 0
  /\ cycle_flag = 0 /\ stop_time = 0 /\ done_received = 0
  /\ i = NUM_HISTORY
  /\ setup_registers = 0 /\ reg_names = {}
  /\ reg_num = [g \in Groups |-> 0]
  /\ contents = [h \in Slots |-> [f \in Signals |-> Nothing]]
  /\ screen = [slot |-> 0, values |-> [f \in Signals |-> Nothing]]
  /\ pc = "read"
  /\ readpipe = <<>> /\ writepipe = <<>> /\ tb = "run" /\ edge = 0

-----------------------------------------------------------------------------
(* The testbench, which blocks in waitforresponse after every dump. *)

DumpEdge ==
  /\ tb = "run" /\ edge < MaxEdge
  /\ edge' = edge + 1
  /\ writepipe' = writepipe \o [k \in 1 .. Len(Dump) |-> [prefix |-> Dump[k], value |-> edge']]
                  \o << [prefix |-> "break", value |-> edge'] >>
  /\ tb' = "wait"
  /\ UNCHANGED <<userVars, inputVars, ringVars, screen, pc, readpipe>>

SendDone ==
  /\ tb = "run" /\ edge > 0
  /\ writepipe' = Append(writepipe, [prefix |-> "DONE", value |-> edge])
  /\ tb' = "done"
  /\ UNCHANGED <<userVars, inputVars, ringVars, screen, pc, readpipe, edge>>

\* 'n' and the two bytes behind it let the testbench go on, or, after DONE,
\* finish; 'Z' ends it.
Waits == tb \in {"wait", "done"}
waitforresponse ==
  /\ Waits /\ readpipe # <<>>
  /\ readpipe' = Tail(readpipe)
  /\ tb' = IF Head(readpipe) = "Z" \/ tb = "done" THEN "finished" ELSE "run"
  /\ UNCHANGED <<userVars, inputVars, ringVars, screen, pc, writepipe, edge>>

\* The child's death leaves the pipe without a writer: read returns at once and
\* leaves c as it was, and the loop that waits for 'n' or 'Z' reads again.
Spins ==
  /\ pc = "crashed" /\ Waits /\ readpipe = <<>>
  /\ UNCHANGED debuggerVars

-----------------------------------------------------------------------------
(* Reading a dump *)

\* parsedata: the windows show the values of slot h of the ring.
Drawn(h) == [slot |-> h, values |-> contents[h]]

\* parse_register, for a register met in the first dump: its place in every
\* slot, and its name.
parse_register(r) == reg_names' = IF setup_registers = 0 THEN reg_names \cup {r} ELSE reg_names

\* Mutant: the next dump's registers are stored behind the first one's.
ResetCountersForgets == reg_num
ResetCounters == [g \in Groups |-> 0]

\* The values of a slot when f has come.
Stored(values, f, value) ==
  [g \in DOMAIN values \cup {f} |-> IF g = f THEN value ELSE values[g]]

processinput(line) ==
  \/ /\ line.prefix \in ToSet(Dump) \cap Scalars
     /\ contents' = [contents EXCEPT ![history_num] = Stored(@, <<line.prefix, 0>>, line.value)]
     /\ UNCHANGED <<reg_num, reg_names, setup_registers>>
  \/ /\ line.prefix \in Groups
     /\ LET r == <<line.prefix, reg_num[line.prefix]>>
        IN  /\ parse_register(r)
            /\ contents' = [contents EXCEPT ![history_num] = Stored(@, r, line.value)]
     /\ reg_num' = [reg_num EXCEPT ![line.prefix] = @ + 1]
     /\ UNCHANGED setup_registers
  \/ /\ line.prefix = "break"
     /\ setup_registers' = 1
     /\ reg_num' = ResetCounters
     /\ UNCHANGED <<contents, reg_names>>
  \/ /\ line.prefix = "DONE"
     /\ UNCHANGED inputVars

\* Mutant: DONE does not end a run.
StopsAtEndRunsOn(done) == FALSE
StopsAtEnd(done) == echo_data = 0 /\ done = 1
AsksForNext(done) == done # 1

\* parsedata of a slot that is none reads before the start of every array of the
\* ring.  What stands before inst_contents is the size of its block in the heap,
\* which is taken for a pointer to a stage's text: the child dies of it.
Dies(slot) ==
  /\ slot \notin Slots
  /\ screen' = [screen EXCEPT !.slot = slot]
  /\ history_num' = slot
  /\ pc' = "crashed"
  /\ UNCHANGED <<hist_num_temp, time_wrapped, readpipe>>

\* The slot is drawn, unless the simulation runs, and the ring turns.
Prompts(slot, done) ==
  /\ slot \in Slots
  /\ screen' = IF echo_data' = 1 THEN Drawn(slot) ELSE screen
  /\ time_wrapped' = IF slot + 1 = NUM_HISTORY THEN 1 ELSE time_wrapped
  /\ history_num' = (slot + 1) % NUM_HISTORY
  /\ hist_num_temp' = IF history_num' = 0 THEN NUM_HISTORY - 1 ELSE history_num' - 1
  /\ readpipe' = IF AsksForNext(done) THEN Append(readpipe, "n") ELSE readpipe
  /\ pc' = "key"

\* The main loop from a complete dump, or DONE, to the user's prompt.  An end that
\* stops a run steps back a slot, which takes slot 0 to -1.
Iteration(done) ==
  LET stop == StopsAtEnd(done)
      slot == IF stop THEN Rem(history_num - 1, NUM_HISTORY) ELSE history_num
  IN  /\ running' = IF stop THEN 0 ELSE running
      /\ echo_data' = IF stop THEN 1 ELSE echo_data
      /\ Dies(slot) \/ Prompts(slot, done)
      /\ UNCHANGED <<goto_flag, cycle_flag, stop_time, i>>

ReadLine ==
  /\ pc = "read" /\ done_received = 0 /\ writepipe # <<>>
  /\ LET line == Head(writepipe)
     IN  /\ processinput(line)
         /\ done_received' = IF line.prefix = "DONE" THEN 1 ELSE 0
         /\ IF line.prefix \in {"break", "DONE"} THEN Iteration(done_received')
            ELSE UNCHANGED <<userVars, history_num, time_wrapped, screen, pc, readpipe>>
  /\ writepipe' = Tail(writepipe)
  /\ UNCHANGED tbVars

\* After DONE the loop reads no more and offers the prompt again.
Again ==
  /\ pc = "read" /\ done_received = 1
  /\ Iteration(1)
  /\ UNCHANGED <<inputVars, done_received, tbVars, writepipe>>

-----------------------------------------------------------------------------
(* The user's keys *)

\* sscanf of the time or the cycle of slot h: other is what the variable held
\* and keeps when the slot holds nothing yet.
ReadTime(h, cycle, other) ==
  LET read == contents[h][<<IF cycle = 1 THEN "c" ELSE "t", 0>>]
  IN  IF read = Nothing THEN other ELSE IF cycle = 1 THEN read \div 2 ELSE read

\* What a key leaves: where the user looks, whether it is drawn, the flags, and
\* whether the inner loop ends.
Here == [at |-> hist_num_temp, drawn |-> FALSE, echo |-> echo_data, run |-> running,
         goto |-> goto_flag, cycle |-> cycle_flag, stop |-> stop_time, i |-> i,
         continue |-> FALSE]

\* Mutant: the windows are not redrawn.
LookUndrawn(h) == [Here EXCEPT !.at = h]
Look(h) == [Here EXCEPT !.at = h, !.drawn = TRUE]

NextEdge ==
  IF hist_num_temp = Rem(history_num - 1, NUM_HISTORY)
  THEN [Here EXCEPT !.continue = done_received = 0]
  ELSE Look((hist_num_temp + 1) % NUM_HISTORY)

Back ==
  IF hist_num_temp > 0 THEN Look(hist_num_temp - 1)
  ELSE IF time_wrapped = 1 THEN Look(NUM_HISTORY - 1) ELSE Here

Run == [Here EXCEPT !.echo = 0, !.run = 1, !.continue = TRUE]
Pause == [Look(hist_num_temp) EXCEPT !.echo = 1, !.run = 0]

\* 'g' and 'c': the search through the ring, from the slot next to the user's in
\* the direction of the target, delta, up to history_num; its k-th slot.  other is
\* what cur_time holds before the first time is read.
Direction(cycle, target, other) == IF target > ReadTime(hist_num_temp, cycle, other) THEN 1 ELSE -1
Searched(delta, k) == (hist_num_temp + delta * k) % NUM_HISTORY

\* A search backwards from any slot below the user's stops at slot 0 unless the
\* ring has wrapped.
Blocked(delta, k) == delta = -1 /\ time_wrapped = 0 /\ k > 1 /\ Searched(delta, k - 1) = 0
Reaches(delta, k) == \A l \in 1 .. k : Searched(delta, l) # history_num /\ ~Blocked(delta, l)

Hits(cycle, target, other) ==
  LET delta == Direction(cycle, target, other)
      seen[k \in 0 .. NUM_HISTORY] ==
        ReadTime(Searched(delta, k), cycle, IF k = 0 THEN other ELSE seen[k - 1])
  IN  {k \in 1 .. NUM_HISTORY :
         Reaches(delta, k) /\ IF delta = 1 THEN seen[k] >= target ELSE seen[k] <= target}

Found(cycle, target, other) ==
  LET delta == Direction(cycle, target, other)
      hits == Hits(cycle, target, other)
      first == Searched(delta, CHOOSE k \in hits : \A l \in hits : k <= l)
      nothingThere == Rem(hist_num_temp + delta, NUM_HISTORY) = history_num
      gaveUp == \E k \in 1 .. NUM_HISTORY : Blocked(delta, k) /\ Reaches(delta, k - 1)
  IN  IF nothingThere THEN [Here EXCEPT !.stop = target]
      ELSE IF hits # {} THEN [Look(first) EXCEPT !.stop = 0, !.i = first]
      ELSE IF gaveUp THEN [Look(hist_num_temp) EXCEPT !.stop = 0, !.i = 0]
      ELSE [Here EXCEPT !.stop = target, !.i = history_num]

\* A search that has come to the end runs on, but not backwards or after DONE.
Goto(cycle, target, other) ==
  LET found == Found(cycle, target, other)
      kept == IF found.i = history_num
                 /\ (Direction(cycle, target, other) = -1 \/ done_received = 1)
              THEN 0 ELSE found.stop
      result == [found EXCEPT !.stop = kept, !.cycle = cycle]
  IN  IF kept > 0
      THEN [result EXCEPT !.echo = 0, !.run = 1, !.continue = TRUE, !.goto = 1]
      ELSE result

\* While the simulation runs, only 'p' is heard.
Responses(resp) ==
  IF running = 1 /\ resp # "p" THEN {Here}
  ELSE CASE resp = "n" -> {NextEdge}
         [] resp = "b" -> {Back}
         [] resp = "r" -> {Run}
         [] resp = "p" -> {Pause}
         [] resp = "q" -> {[Here EXCEPT !.continue = TRUE]}
         [] resp \in {"g", "c"} ->
              {Goto(IF resp = "c" THEN 1 ELSE 0, target, other) : target \in Times, other \in Times}
         [] OTHER -> {Here}

\* After the inner loop: a jump that has reached its time, or the end, stops.
GotoCheck(u) ==
  IF u.goto = 1 /\ (ReadTime(u.at, u.cycle, 0) >= u.stop \/ done_received = 1)
  THEN [u EXCEPT !.goto = 0, !.echo = 1, !.run = 0]
  ELSE u

\* getch times out at once while the simulation runs, and waits otherwise.
Key(resp) ==
  /\ pc = "key" /\ (resp = "ERR" => running = 1)
  /\ \E r \in Responses(resp) :
       LET quits == resp = "q" /\ running = 0
           goes == r.continue \/ running = 1
           u == IF goes THEN GotoCheck(r) ELSE r
       IN  /\ hist_num_temp' = u.at /\ echo_data' = u.echo /\ running' = u.run
           /\ goto_flag' = u.goto /\ cycle_flag' = u.cycle /\ stop_time' = u.stop /\ i' = u.i
           /\ screen' = IF u.drawn THEN Drawn(u.at) ELSE screen
           /\ pc' = IF quits THEN "exit" ELSE IF goes THEN "read" ELSE "key"
           /\ readpipe' = IF quits THEN Append(readpipe, "Z") ELSE readpipe
  /\ UNCHANGED <<inputVars, ringVars, writepipe, tbVars>>

Terminated == pc = "exit" /\ tb = "finished" /\ UNCHANGED debuggerVars

DebuggerNext ==
  \/ DumpEdge \/ SendDone \/ waitforresponse \/ Spins \/ ReadLine \/ Again
  \/ \E resp \in Keys : Key(resp)
  \/ Terminated

DebuggerSpec == DebuggerInit /\ [][DebuggerNext]_debuggerVars

-----------------------------------------------------------------------------
\* The edges whose dumps the debugger has read to the end.
Received == edge - Cardinality({k \in DOMAIN writepipe : writepipe[k].prefix = "break"})

\* At the prompt the ring holds the latest dumps, in order, every signal of them
\* the right one, however often it wrapped.  (After DONE one more slot counts.)
RingHoldsLatest ==
  pc = "key" /\ done_received = 0 =>
    \A k \in 0 .. NUM_HISTORY - 1 :
      k < Received =>
        contents[(history_num - 1 - k) % NUM_HISTORY] = [f \in Signals |-> Received - k]

\* At the prompt the windows show the slot from which the keys go on.
CursorIsShown == pc = "key" /\ running = 0 => screen.slot = hist_num_temp

\* A simulation that runs, to the end or to a time, comes back to the prompt, or
\* its end kills the child, and only there: when the last dump filled the last
\* slot of the ring, or, for a run asked for after DONE, when slot 0 is the next.
AtPrompt == pc = "key" /\ running = 0
Stops ==
  /\ (running = 1 /\ done_received = 0)
       ~> (AtPrompt \/ (pc = "crashed" /\ edge % NUM_HISTORY = 0))
  /\ (running = 1 /\ done_received = 1 /\ history_num # 0) ~> AtPrompt
=============================================================================
