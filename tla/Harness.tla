------------------------------- MODULE Harness -------------------------------
(***************************************************************************)
(* harness.c: a test program plays the network-driver for a program under  *)
(* test.  meta() starts the program and runs the commands of a test: send  *)
(* a frame, expect frames before a deadline, expect silence until one.     *)
(* The program is any that uses loop(); it may be slow, wrong, or die.     *)
(***************************************************************************)
EXTENDS Loop, FiniteSets

CONSTANTS
    Suites,     \* sequences of tests, each [ifcs |-> n, cmds |-> commands]
    FRAME,      \* units of the messages that carry a frame
    MACS,       \* units of the message that carries the MAC list
    CHILD_BUF,  \* units child_buf holds
    WAIT        \* seconds until the deadline: 3 in the code

\* Width of the int that expect_multicast shifts, and its mask with it.
INT_BITS == 32

\* The MAC list goes out in one write(); a test names interfaces it has, and
\* expects no more than a mask made of ints has bits for; the program has a
\* handler for each.
ASSUME HarnessAssumption ==
    /\ FRAME \in Nat /\ FRAME >= HDR
    /\ MACS \in HDR..PIPE_CAP
    /\ CHILD_BUF \in Nat /\ WAIT \in Nat
    /\ 0 \in DOMAIN Reply
    /\ \A tests \in Suites :
         /\ tests \in Seq([ifcs : Nat, cmds : Seq([op : {"send", "expect", "silence"},
                                                 ifc : Nat, all : SUBSET Nat])])
         /\ tests # <<>>
         /\ \A n \in DOMAIN tests : \A k \in DOMAIN tests[n].cmds :
              /\ tests[n].cmds[k].ifc \in DOMAIN Reply
              /\ tests[n].cmds[k].all \subseteq 1..tests[n].ifcs
              /\ tests[n].cmds[k].all \subseteq 1..(INT_BITS - 1)

VARIABLES
    suite,      \* the tests of this test program
    test, cmd,  \* which test is running, and which of its commands
    pc,         \* the stage of meta(), tsend(), trecv() or expect_silence()
    unsent,     \* what write_all has yet to write to the program
    child_buf,  \* static buffer for what came from the program
    left,       \* etime - time(NULL): seconds to the deadline
    asleep,     \* is select() waiting?
    attempts,   \* messages trecv may still try
    all,        \* interfaces a frame is still expected on
    ret,        \* result of the last command
    results,    \* what meta() returned, test by test
    fresh,      \* history: was child_buf empty when this test was launched?
    made,       \* history: types of the messages the program made in this test
    taken,      \* history: how many of them were taken out of child_buf
    faulty      \* history: has the program answered a frame wrongly?

cmdVars == <<unsent, left, asleep, attempts, all>>
historyVars == <<made, taken, faulty>>
suiteVars == <<suite, test, results, fresh>>
vars == <<toChild, fromChild, child, loopVars, suiteVars, cmd, pc, cmdVars,
          child_buf, ret, historyVars>>

Send(i) == [op |-> "send", ifc |-> i, all |-> {}]
Expect(S) == [op |-> "expect", ifc |-> 0, all |-> S]
Silence == [op |-> "silence", ifc |-> 0, all |-> {}]

Running == suite[test]
Command == Running.cmds[cmd]
FrameId == test % 2     \* every test makes a random frame of its own

Init ==
    /\ suite \in Suites
    /\ test = 1 /\ cmd = 1 /\ results = <<>> /\ fresh = TRUE
    /\ pc = "meta" /\ ret = 0
    /\ toChild = <<>> /\ fromChild = <<>> /\ child = "dead"
    /\ LoopInit
    /\ unsent = <<>> /\ child_buf = <<>>
    /\ left = WAIT /\ asleep = FALSE /\ attempts = 0 /\ all = {}
    /\ made = <<>> /\ taken = 0 /\ faulty = FALSE
-----------------------------------------------------------------------------
(***************************************************************************)
(* meta() and run().                                                       *)
(***************************************************************************)

\* meta: pipes and fork.  child_buf keeps what an earlier program left there.
Launch ==
    /\ pc = "meta"
    /\ pc' = "macs" /\ cmd' = 1 /\ ret' = 0
    /\ child' = "alive" /\ toChild' = <<>> /\ fromChild' = <<>>
    /\ inbuf' = <<>> /\ pending' = <<>> /\ have_mac' = FALSE /\ last' = <<>>
    /\ unsent' = <<>> /\ left' = WAIT /\ asleep' = FALSE
    /\ attempts' = 0 /\ all' = {}
    /\ made' = <<>> /\ taken' = 0 /\ faulty' = FALSE
    /\ fresh' = (child_buf = <<>>)
    /\ UNCHANGED <<suite, test, results, child_buf>>

\* The test is over, or the suite with it.
Record(r) ==
    /\ results' = Append(results, r)
    /\ test' = IF test = Len(suite) THEN test ELSE test + 1
    /\ pc' = IF test = Len(suite) THEN "done" ELSE "meta"
    /\ UNCHANGED <<suite, fresh>>

\* pipe() or fork() fails: there is nobody to kill.
LaunchFails ==
    /\ pc = "meta"
    /\ Record(1)
    /\ UNCHANGED <<toChild, fromChild, child, loopVars, cmd, cmdVars, child_buf,
                   ret, historyVars>>

\* One write() for the MAC list; SIGPIPE is ignored, so a dead program shows.
SendMacs ==
    /\ pc = "macs"
    /\ \/ /\ child = "alive"
          /\ toChild' = UnitsOf(Message(0, 0, FrameId, MACS))
          /\ pc' = "run" /\ UNCHANGED ret
       \/ /\ child = "dead"
          /\ ret' = 4 /\ pc' = "cleanup" /\ UNCHANGED toChild
    /\ UNCHANGED <<fromChild, child, loopVars, suiteVars, cmd, cmdVars, child_buf,
                   historyVars>>

\* run(): the first command that fails is the last.
Return(r) ==
    /\ ret' = r
    /\ cmd' = IF r = 0 THEN cmd + 1 ELSE cmd
    /\ pc' = IF r = 0 THEN "run" ELSE "cleanup"
    /\ asleep' = FALSE

RunCommand ==
    /\ pc = "run"
    /\ \/ /\ cmd > Len(Running.cmds)
          /\ pc' = "cleanup"
          /\ UNCHANGED cmdVars
       \/ /\ cmd <= Len(Running.cmds) /\ Command.op = "send"
          /\ pc' = "send"
          /\ unsent' = UnitsOf(Message(Command.ifc, Command.ifc, FrameId, FRAME))
          /\ UNCHANGED <<left, asleep, attempts, all>>
       \/ /\ cmd <= Len(Running.cmds) /\ Command.op \in {"expect", "silence"}
          /\ pc' = Command.op
          /\ left' = WAIT
          /\ attempts' = Cardinality(Command.all)
          /\ all' = Command.all
          /\ UNCHANGED <<unsent, asleep>>
    /\ UNCHANGED <<toChild, fromChild, child, loopVars, suiteVars, cmd, child_buf,
                   ret, historyVars>>

\* meta: kill, close.  Nothing resets child_buf.
Cleanup ==
    /\ pc = "cleanup"
    /\ child' = "dead" /\ toChild' = <<>> /\ fromChild' = <<>>
    /\ inbuf' = <<>> /\ pending' = <<>>
    /\ Record(ret)
    /\ UNCHANGED <<have_mac, last, cmd, cmdVars, child_buf, ret, historyVars>>
-----------------------------------------------------------------------------
(***************************************************************************)
(* tsend(): write_all blocks while the pipe is full and ends the whole     *)
(* test program when the program under test is gone.                       *)
(***************************************************************************)
Write ==
    /\ pc = "send" /\ child = "alive"
    /\ LET n == Least(Len(unsent), PIPE_CAP - Len(toChild)) IN
         /\ n > 0
         /\ toChild' = toChild \o Front(unsent, n)
         /\ unsent' = Rest(unsent, n)
         /\ IF n = Len(unsent) THEN Return(0)
                               ELSE UNCHANGED <<ret, cmd, pc, asleep>>
    /\ UNCHANGED <<fromChild, child, loopVars, suiteVars, left, attempts, all,
                   child_buf, historyVars>>

WriteFails ==
    /\ pc = "send" /\ child = "dead"
    /\ pc' = "exited"
    /\ UNCHANGED <<toChild, fromChild, child, loopVars, suiteVars, cmd, cmdVars,
                   child_buf, ret, historyVars>>
-----------------------------------------------------------------------------
(***************************************************************************)
(* trecv() and expect_silence().                                           *)
(***************************************************************************)
\* The message at the start of child_buf is dealt with: memmove.
Shift_header(m) == Rest(child_buf, m.size - HDR)
Shift(m) == Rest(child_buf, m.size)

Take(m) ==
    /\ child_buf' = Shift(m)
    /\ taken' = taken + 1
    /\ UNCHANGED <<made, faulty>>

IsText_never(m) == FALSE
IsText(m) == m.type = 0

\* expect_multicast: 1 << (ifc - 1) is an int.  A type from 33 to 63 shifts by
\* more than it has bits, which is undefined: the processor takes the shift
\* modulo the width and comes to the bit of another interface, or to no bit.
Interface(t) == IF t < 2 * INT_BITS THEN t % INT_BITS ELSE 0
Bits(m) == IF m.type < INT_BITS THEN {m.type} ELSE {0, Interface(m.type)}

\* The frame, and its bit is that of an interface it is still expected on.
Matches(m, bit) == bit \in all /\ m.id = FrameId

\* What is expected after m: its bit is cleared.
Remaining_none(m, bit) == IF Matches(m, bit) THEN {} ELSE all
Remaining(m, bit) == IF Matches(m, bit) THEN all \ {bit} ELSE all

\* trecv: one message from the buffer.  A text costs no attempt.
TryMessage ==
    /\ pc = "expect" /\ attempts > 0 /\ Complete(child_buf)
    /\ LET m == FirstOf(child_buf)
       IN /\ Take(m)
          /\ attempts' = IF IsText(m) THEN attempts ELSE attempts - 1
          /\ \E bit \in Bits(m) :
               /\ all' = Remaining(m, bit)
               /\ IF Matches(m, bit) /\ Remaining(m, bit) = {}
                  THEN Return(0)
                  ELSE UNCHANGED <<ret, cmd, pc, asleep>>
    /\ UNCHANGED <<toChild, fromChild, child, loopVars, suiteVars, unsent, left>>

Exhausted ==
    /\ pc = "expect" /\ attempts = 0
    /\ Return(1)
    /\ UNCHANGED <<toChild, fromChild, child, loopVars, suiteVars, unsent, left,
                   attempts, all, child_buf, historyVars>>

\* expect_silence: texts are dropped, a frame is a failure.
BreakSilence ==
    /\ pc = "silence" /\ Complete(child_buf)
    /\ LET m == FirstOf(child_buf) IN
         /\ Take(m)
         /\ IF IsText(m) THEN UNCHANGED <<ret, cmd, pc, asleep>> ELSE Return(1)
    /\ UNCHANGED <<toChild, fromChild, child, loopVars, suiteVars, unsent, left,
                   attempts, all>>

\* Both wait for more in select() until the deadline.  Once it has passed
\* the timeout is negative, which select() refuses.
NeedsMore ==
    /\ ~Complete(child_buf)
    /\ pc = "silence" \/ (pc = "expect" /\ attempts > 0)

CallSelect ==
    /\ NeedsMore /\ ~asleep
    /\ IF left < 0 THEN Return(1) ELSE asleep' = TRUE /\ UNCHANGED <<ret, cmd, pc>>
    /\ UNCHANGED <<toChild, fromChild, child, loopVars, suiteVars, unsent, left,
                   attempts, all, child_buf, historyVars>>

\* Room behind what the buffer holds.
ReadRoom_whole == CHILD_BUF
ReadRoom == CHILD_BUF - Len(child_buf)

\* What is there to read, or as much of it as the program's write() has got
\* to: beyond PIPE_BUF a message arrives in pieces.
ReadChild ==
    /\ NeedsMore /\ asleep
    /\ \E n \in 1..Least(Len(fromChild), ReadRoom) :
         /\ child_buf' = child_buf \o Front(fromChild, n)
         /\ fromChild' = Rest(fromChild, n)
    /\ asleep' = FALSE
    /\ UNCHANGED <<toChild, child, loopVars, suiteVars, cmd, pc, ret, unsent, left,
                   attempts, all, historyVars>>

\* read() returned 0: the program has ended.
ReadEnd ==
    /\ NeedsMore /\ asleep
    /\ fromChild = <<>> /\ child = "dead"
    /\ Return(1)
    /\ UNCHANGED <<toChild, fromChild, child, loopVars, suiteVars, unsent, left,
                   attempts, all, child_buf, historyVars>>

Expired_never == FALSE
Expired == left <= 0

TimedOut ==
    /\ NeedsMore /\ asleep
    /\ fromChild = <<>> /\ child = "alive"
    /\ Expired
    /\ Return(IF pc = "silence" THEN 0 ELSE 1)
    /\ UNCHANGED <<toChild, fromChild, child, loopVars, suiteVars, unsent, left,
                   attempts, all, child_buf, historyVars>>

Tick ==
    /\ pc \in {"expect", "silence"} /\ left >= 0
    /\ left' = left - 1
    /\ UNCHANGED <<toChild, fromChild, child, loopVars, suiteVars, cmd, pc, unsent,
                   asleep, attempts, all, child_buf, ret, historyVars>>
-----------------------------------------------------------------------------
(***************************************************************************)
(* The program under test, and the whole.                                  *)
(***************************************************************************)
harnessVars == <<suiteVars, cmd, pc, cmdVars, child_buf, ret, taken>>

Sequence == INSTANCE SequencesExt

\* The types of the messages whose end is in the stream, and those of frames.
TypesOf(stream) ==
    Sequence!FlattenSeq([n \in DOMAIN stream |->
        LET u == stream[n] IN IF u.k = u.msg.size THEN <<u.msg.type>> ELSE <<>>])
Frames(types) ==
    Sequence!FlattenSeq([n \in DOMAIN types |->
        IF types[n] = 0 THEN <<>> ELSE <<types[n]>>])

\* A right answer to a frame on interface t: to every other interface, once.
IsFlood(t, types) ==
    LET to == Frames(types)
        others == (1..Running.ifcs) \ {t}
    IN Len(to) = Cardinality(others) /\ {to[n] : n \in DOMAIN to} = others

ProgramHandles ==
    /\ LoopHandle
    /\ made' = made \o TypesOf(pending')
    /\ faulty' = (faulty \/ (have_mac /\ ~IsFlood(last'[1], TypesOf(pending'))))
    /\ UNCHANGED harnessVars

Program ==
    \/ ProgramHandles
    \/ (LoopRead \/ WriteAll) /\ UNCHANGED <<harnessVars, made, faulty>>

ProgramEnds ==
    /\ child = "alive"
    /\ child' = "dead"
    /\ UNCHANGED <<toChild, fromChild, loopVars, harnessVars, made, faulty>>

HarnessStep ==
    \/ Launch \/ LaunchFails \/ SendMacs \/ RunCommand \/ Cleanup
    \/ Write \/ WriteFails
    \/ TryMessage \/ Exhausted \/ BreakSilence \/ CallSelect \/ ReadChild
    \/ ReadEnd \/ TimedOut

Next == HarnessStep \/ Tick \/ Program \/ ProgramEnds

\* The test program is scheduled and time passes; the program under test may
\* hang.
Spec == Init /\ [][Next]_vars /\ WF_vars(HarnessStep) /\ WF_vars(Tick)
-----------------------------------------------------------------------------
(***************************************************************************)
(* Properties.                                                             *)
(***************************************************************************)
TypeOK ==
    /\ suite \in Suites /\ test \in DOMAIN suite
    /\ pc \in {"meta", "macs", "run", "send", "expect", "silence", "cleanup",
               "done", "exited"}
    /\ left \in -1..WAIT
    /\ Len(child_buf) <= CHILD_BUF
    /\ Len(toChild) <= PIPE_CAP /\ Len(fromChild) <= PIPE_CAP
    /\ pc \notin {"meta", "done"} =>
         attempts \in 0..Running.ifcs /\ all \subseteq 1..Running.ifcs
    /\ \A n \in DOMAIN results : results[n] \in {0, 1, 4}

\* Neither side ever reads a header where there is none (the memmoves of
\* trecv and expect_silence, and loop's).
StreamsFramed ==
    /\ Framed(child_buf \o fromChild \o pending)
    /\ Framed(inbuf \o toChild \o unsent)

\* How many frames a command expects, and the first n commands together.
Expected(c) == IF c.op = "expect" THEN Cardinality(c.all) ELSE 0
Due(cmds, n) ==
    LET upTo[i \in 0..Len(cmds)] ==
            IF i = 0 THEN 0 ELSE upTo[i - 1] + Expected(cmds[i])
    IN upTo[n]

\* A test is passed only by a program whose answers count for each expected
\* interface exactly once, and that said nothing else that was taken:
\* attempts, bits and the final silence leave no other way.  What a message
\* counts for is Interface of its type, so one from 33 to 63 may earn what is
\* owed to the interface 32 below it (expect_multicast); all others count for
\* their own interface or for none.
PassIsEarned ==
    pc = "cleanup" /\ ret = 0 =>
        LET got == Frames(Front(made, taken))
            cmds == Running.cmds
        IN /\ Len(got) = Due(cmds, Len(cmds))
           /\ \A n \in DOMAIN cmds :
                cmds[n].op = "expect" =>
                    {Interface(got[j]) : j \in (Due(cmds, n - 1) + 1)..Due(cmds, n)}
                        = cmds[n].all

\* A command came to wait for more when its time was over.  For trecv that is
\* the end; a silence is then kept, and fails only if select() is called with
\* a negative timeout: a text was read as the deadline passed, say
\* (expect_silence, harness.c:403-413).
DeadlinePassed ==
    /\ ~Complete(child_buf)
    /\ \/ Command.op = "expect" /\ attempts > 0 /\ left <= 0
       \/ Command.op = "silence" /\ left < 0

\* A test fails only if its program answered a frame wrongly or ended, or if a
\* deadline passed: no order or text makes trecv fail in time, nor a silence
\* that waits in time.  A silence that comes to wait after its deadline is the
\* exception: there a right and living program's text may fail the test.
FailureHasCause ==
    pc = "cleanup" /\ ret # 0 => faulty \/ child = "dead" \/ DeadlinePassed

\* Whatever the program does, hang included, the tests come to an end.
TestsEnd == <>(pc \in {"done", "exited"})
=============================================================================
