--------------------------------- MODULE Tut ---------------------------------
(***************************************************************************)
(* The unit test framework of lib/: test groups and the test runner        *)
(* (tut.h), the reporter it calls back (tut_reporter.h), and the           *)
(* restartable wrapper (tut_restartable.h), which survives a test that     *)
(* kills the process: it writes the test it is about to execute to a log   *)
(* and the results to a journal, and when it is started again it counts    *)
(* the logged test as terminated and goes on behind it.                    *)
(*                                                                         *)
(* A test is what its object's constructor, its body and the destructor    *)
(* do.  A file holds what was written to it; each write is flushed and is  *)
(* one step, and the process can be killed between two steps.              *)
(***************************************************************************)
EXTENDS Integers, Sequences, SequencesExt, FiniteSets, Functions

CONSTANTS Group,     \* the test groups in the order of their names: records
                     \* of name (its characters), ctorThrows, and tests, a
                     \* sequence of [body, dtorThrows] for test<1>, test<2>,
                     \* ... up to MaxTestsInGroup; a body is the sequence of
                     \* its calls
          MaxKills   \* bound: how often the process is killed between steps

VARIABLES groups_,   \* the numbers of the registered groups
          mode,      \* which of the run functions was called
          pc, gi, test, result,          \* where it is
          os, counts, not_passed,        \* the reporter,
          report,                        \* and what run_completed printed
          log_, jrn_,                    \* the wrapper's files
          kills

vars == <<groups_, mode, pc, gi, test, result, os, counts, not_passed,
          report, log_, jrn_, kills>>
reporter == <<os, counts, not_passed, report>>
files == <<log_, jrn_>>

Result == {"ok", "fail", "ex", "warn", "term"}
NumTests(g) == Len(Group[g].tests)

-----------------------------------------------------------------------------
(* ensure, ensure_equals, ensure_distance and fail throw a failure; a test *)
(* that is not specialised is test_object's, which sets a flag.            *)
Ensure(cond) == IF cond THEN "nothing" ELSE "failure"
EnsureEquals(actual, expected) == Ensure(~(expected # actual))
EnsureDistance(actual, expected, distance) ==
  Ensure(~(expected - distance >= actual \/ expected + distance <= actual))
Fail == "failure"
DummyTest == "dummy"

Call(c) ==
  CASE c.fn = "ensure"          -> Ensure(c.cond)
    [] c.fn = "ensure_equals"   -> EnsureEquals(c.actual, c.expected)
    [] c.fn = "ensure_distance" -> EnsureDistance(c.actual, c.expected, c.distance)
    [] c.fn = "fail"            -> Fail
    [] c.fn = "dummy"           -> DummyTest
    [] c.fn = "throw"           -> "exception"
    [] c.fn = "kill"            -> "killed"

(* What the first call throws that does not return. *)
Calls(body) ==
  FoldLeft(LAMBDA thrown, c : IF thrown = "nothing" THEN Call(c) ELSE thrown,
           "nothing", body)

(* test_group::run_test_seh_, release and run_test_: the exception that    *)
(* leaves the constructor, the body or (after a body that returned) the    *)
(* destructor decides the result.  A method that is not specialised is a   *)
(* dummy and counts as no test, but only if its object could be made.      *)
Released(t) == IF t.dtorThrows THEN "warning" ELSE "nothing"
Thrown(g, n) ==
  LET t == Group[g].tests[n]
  IN  CASE Group[g].ctorThrows        -> "exception"
        [] Calls(t.body) # "nothing"  -> Calls(t.body)
        [] OTHER                      -> Released(t)

Classify(thrown) ==
  CASE thrown = "dummy"     -> "no_such_test"
    [] thrown = "warning"   -> "warn"
    [] thrown = "failure"   -> "fail"
    [] thrown = "exception" -> "ex"
    [] thrown = "nothing"   -> "ok"
    [] OTHER                -> "killed"       \* the process dies in the test

RunTest_(g, n) == Classify(Thrown(g, n))

(* test_group::run_test *)
RunTest(g, n) ==
  CASE n > NumTests(g)       -> "beyond_last_test"
    [] n \notin 1..NumTests(g) -> "no_such_test"
    [] OTHER                 -> RunTest_(g, n)

(* test_group::run_next from current_test_ on: the number of the test that *)
(* is run, dummies skipped; 0 stands for no_more_tests.                    *)
RunNext(g, current) ==
  SelectInSubSeq([i \in 1..NumTests(g) |-> RunTest_(g, i)], current,
                 NumTests(g), LAMBDA r : r # "no_such_test")

-----------------------------------------------------------------------------
(* util::escape writes a character that is neither a letter nor a digit as *)
(* a backslash and two letters.  A char is signed, and is widened to an    *)
(* unsigned int before it is shifted, so that the first letter of a        *)
(* negative one is below 'a'; unescape is its inverse in char arithmetic.  *)
Backslash == 92
LetterA == 97
Char(x) == ((x + 128) % 256) - 128
IsPlain(c) == c \in (97..122) \union (65..90) \union (48..57)
Escape(s) ==
  FlattenSeq([i \in DOMAIN s |->
    IF IsPlain(s[i]) THEN <<s[i]>>
    ELSE <<Backslash, Char(LetterA + (s[i] \div 16)), LetterA + (s[i] % 16)>>])

Unescape(s) ==
  LET from[i \in 1..(Len(s) + 3)] ==
        CASE i > Len(s)        -> << >>
          [] i <= Len(s) /\ s[i] # Backslash -> <<s[i]>> \o from[i + 1]
          [] OTHER -> <<Char((s[i + 1] - LetterA) * 16 + (s[i + 2] - LetterA))>>
                        \o from[i + 3]
  IN  from[1]

(* util::serialize and deserialize: the name, the number, a digit for the  *)
(* result.  (The message is left out.)                                     *)
Digit == [ok |-> 0, fail |-> 1, ex |-> 2, warn |-> 3, term |-> 4]
Serialize(tr) == <<Escape(tr.group), tr.test, Digit[tr.result]>>
Deserialize(line) ==
  [group |-> Unescape(line[1]), test |-> line[2],
   result |-> CHOOSE r \in Result : Digit[r] = line[3]]

TestResult(g, n, r) == [group |-> Group[g].name, test |-> n, result |-> r]

-----------------------------------------------------------------------------
(* The reporter: run_started clears it, test_completed prints and counts.  *)
NoCounts == [r \in Result |-> 0]
NoReport == [problems |-> << >>, summary |-> << >>]
RunStarted ==
  /\ counts' = NoCounts /\ not_passed' = << >> /\ os' = << >>
  /\ report' = NoReport
NotPassed(trs) == SelectSeq(trs, LAMBDA tr : tr.result # "ok")
Counted(c, tr) == [c EXCEPT ![tr.result] = @ + 1]
Completed(tr) ==
  /\ os' = Append(os, tr)
  /\ counts' = Counted(counts, tr)
  /\ not_passed' = not_passed \o NotPassed(<<tr>>)

(* run_completed: what did not pass, and the counters, but for ok those    *)
(* that are not 0.                                                         *)
RunCompleted(c, trs) ==
  report' = [problems |-> trs,
             summary |-> Restrict(c, {r \in Result : r = "ok" \/ c[r] > 0})]

Init == /\ groups_ = {} /\ mode = "none" /\ pc = "register"
        /\ gi = 0 /\ test = 0 /\ result = "ok"
        /\ os = << >> /\ counts = NoCounts /\ not_passed = << >>
        /\ report = NoReport
        /\ log_ = << >> /\ jrn_ = << >> /\ kills = 0

(* test_runner::register_group, called by each test_group's constructor; a *)
(* second group of the same name is a logic_error.                         *)
RegisterGroup(g) ==
  /\ pc = "register"
  /\ IF \E h \in groups_ : Group[h].name = Group[g].name
     THEN pc' = "threw" /\ UNCHANGED groups_
     ELSE groups_' = groups_ \union {g} /\ UNCHANGED pc
  /\ UNCHANGED <<mode, gi, test, result, reporter, files, kills>>

(* list_groups and the map's iterator: the groups in order of their names  *)
Following(g) == {h \in groups_ : h > g}
NextGroup(g) == IF Following(g) = {} THEN 0
                ELSE CHOOSE h \in Following(g) : \A k \in Following(g) : h <= k

(* test_runner::run_tests(), run_tests(group_name) and run_test(name, n):  *)
(* run_started comes first, then an unknown group is an exception.         *)
StartRun(m, g, n) ==
  /\ pc = "register"
  /\ IF g # 0 THEN RunStarted
     ELSE /\ counts' = NoCounts /\ not_passed' = << >> /\ os' = << >>
          /\ RunCompleted(NoCounts, << >>)
  /\ mode' = m /\ gi' = g /\ test' = n
  /\ pc' = IF g = 0 THEN "completed"
           ELSE IF g \notin groups_ THEN "threw"
           ELSE IF m = "one" THEN "one" ELSE "next"
  /\ UNCHANGED <<groups_, result, files, kills>>

RunAll == StartRun("all", NextGroup(0), 1)
RunGroup(g) == StartRun("group", g, 1)
RunOne(g, n) == StartRun("one", g, n)

(* One turn of the loop `for(;;)': run_next, and test_completed or, at the *)
(* end of the group, the next group.                                       *)
Turn ==
  LET n == RunNext(gi, test)
  IN  /\ pc = "next"
      /\ CASE n = 0 ->
                /\ gi' = IF mode = "all" THEN NextGroup(gi) ELSE 0
                /\ test' = 1
                /\ pc' = IF gi' = 0 THEN "completed" ELSE "next"
                /\ IF gi' = 0 THEN RunCompleted(counts, not_passed) ELSE UNCHANGED report
                /\ UNCHANGED <<os, counts, not_passed>>
           [] n # 0 /\ RunTest_(gi, n) = "killed" ->
                pc' = "dead" /\ UNCHANGED <<gi, test, reporter>>
           [] OTHER ->
                /\ Completed(TestResult(gi, n, RunTest_(gi, n)))
                /\ test' = n + 1 /\ UNCHANGED <<gi, pc, report>>
      /\ UNCHANGED <<groups_, mode, result, files, kills>>

(* The one test, or the exception for a number that is none. *)
RunOneTest ==
  LET r == RunTest(gi, test)
  IN  /\ pc = "one"
      /\ IF r \in Result
         THEN Completed(TestResult(gi, test, r)) /\ pc' = "completed"
         ELSE /\ pc' = IF r = "killed" THEN "dead" ELSE "threw"
              /\ UNCHANGED <<os, counts, not_passed>>
      /\ IF r = "killed" THEN UNCHANGED report ELSE RunCompleted(counts', not_passed')
      /\ UNCHANGED <<groups_, mode, gi, test, result, files, kills>>

-----------------------------------------------------------------------------
(* restartable_wrapper::run_tests *)
RunRestartable ==
  /\ pc = "register" /\ groups_ # {}
  /\ mode' = "restartable" /\ pc' = "read_log"
  /\ UNCHANGED <<groups_, gi, test, result, reporter, files, kills>>

(* read_log_: without a log, a first run, with empty files; with one, the  *)
(* logged test gets the result term and the run starts behind it.          *)
LoggedGroup == CHOOSE g \in groups_ : Group[g].name = Unescape(log_[1])

(* Mistake: the test that was logged is executed again. *)
ReadLogAgain ==
  /\ pc = "read_log"
  /\ IF log_ = << >>
     THEN jrn_' = << >> /\ gi' = NextGroup(0) /\ test' = 1
     ELSE UNCHANGED jrn_ /\ gi' = LoggedGroup /\ test' = log_[2]
  /\ pc' = "log"
  /\ UNCHANGED <<groups_, mode, result, log_, reporter, kills>>

ReadLog ==
  /\ pc = "read_log"
  /\ IF log_ = << >>
     THEN /\ jrn_' = << >>
          /\ gi' = NextGroup(0) /\ test' = 1
     ELSE /\ jrn_' = Append(jrn_, Serialize(TestResult(LoggedGroup, log_[2],
                                                       "term")))
          /\ gi' = LoggedGroup /\ test' = log_[2] + 1
  /\ pc' = "log"
  /\ UNCHANGED <<groups_, mode, result, log_, reporter, kills>>

(* register_execution_: the file is empty once it is open, until the line  *)
(* is written.                                                             *)
RegisterExecution ==
  /\ \/ pc = "log" /\ log_' = << >> /\ pc' = "write_log"
     \/ /\ pc = "write_log" /\ pc' = "run"
        /\ log_' = <<Escape(Group[gi].name), test>>
  /\ UNCHANGED <<groups_, mode, gi, test, result, jrn_, reporter, kills>>

(* runner_.run_test; the runner's own callbacks have no effect that lasts, *)
(* since the reporter is attached only for the final report.               *)
Execute ==
  LET r == RunTest(gi, test)
  IN  /\ pc = "run"
      /\ result' = r
      /\ CASE r = "beyond_last_test" ->
                /\ gi' = NextGroup(gi) /\ test' = 1
                /\ pc' = IF gi' = 0 THEN "report" ELSE "log"
           [] r = "no_such_test" ->
                test' = test + 1 /\ pc' = "log" /\ UNCHANGED gi
           [] r = "killed" -> pc' = "dead" /\ UNCHANGED <<gi, test>>
           [] OTHER -> pc' = "journal" /\ UNCHANGED <<gi, test>>
      /\ UNCHANGED <<groups_, mode, files, reporter, kills>>

(* register_test_ *)
RegisterTest ==
  /\ pc = "journal"
  /\ jrn_' = Append(jrn_, Serialize(TestResult(gi, test, result)))
  /\ test' = test + 1 /\ pc' = "log"
  /\ UNCHANGED <<groups_, mode, gi, result, log_, reporter, kills>>

(* invoke_callback_ replays the journal to the reporter. *)
InvokeCallback ==
  LET trs == [i \in DOMAIN jrn_ |-> Deserialize(jrn_[i])]
  IN  /\ pc = "report"
      /\ os' = trs
      /\ counts' = FoldLeft(Counted, NoCounts, trs)
      /\ not_passed' = NotPassed(trs)
      /\ RunCompleted(counts', not_passed')
      /\ pc' = "truncate_log"
      /\ UNCHANGED <<groups_, mode, gi, test, result, files, kills>>

(* truncate_ *)
TruncateLog ==
  /\ pc = "truncate_log" /\ log_' = << >> /\ pc' = "truncate_journal"
  /\ UNCHANGED <<groups_, mode, gi, test, result, jrn_, reporter, kills>>
TruncateJournal ==
  /\ pc = "truncate_journal" /\ jrn_' = << >> /\ pc' = "completed"
  /\ UNCHANGED <<groups_, mode, gi, test, result, log_, reporter, kills>>

(* The process is killed between two steps, not by a test. *)
Kill ==
  /\ mode = "restartable" /\ kills < MaxKills
  /\ pc \notin {"dead", "completed"}
  /\ kills' = kills + 1 /\ pc' = "dead"
  /\ UNCHANGED <<groups_, mode, gi, test, result, reporter, files>>

(* The user starts the program again: only the files are left. *)
Restart ==
  /\ mode = "restartable" /\ pc = "dead"
  /\ pc' = "read_log" /\ gi' = 0 /\ test' = 0 /\ result' = "ok" /\ RunStarted
  /\ UNCHANGED <<groups_, mode, files, kills>>

Step == \/ Turn \/ RunOneTest
        \/ ReadLog \/ RegisterExecution \/ Execute \/ RegisterTest
        \/ InvokeCallback \/ TruncateLog \/ TruncateJournal \/ Restart

Next ==
  \/ \E g \in DOMAIN Group :
       \/ RegisterGroup(g) \/ RunGroup(g)
       \/ \E n \in 0..(NumTests(g) + 1) : RunOne(g, n)
  \/ RunAll \/ RunRestartable \/ Step \/ Kill

Spec == Init /\ [][Next]_vars

(* The process goes on, and the user restarts it when it has died. *)
FairSpec == Spec /\ WF_vars(Step)

-----------------------------------------------------------------------------
(* What a test means: its result when every call of it holds, and else the *)
(* one that the first call that does not hold stands for.                  *)
Holds(c) ==
  CASE c.fn = "ensure"          -> c.cond
    [] c.fn = "ensure_equals"   -> c.actual = c.expected
    [] c.fn = "ensure_distance" -> c.actual \in (c.expected - c.distance + 1)
                                               ..(c.expected + c.distance - 1)
    [] OTHER                    -> FALSE
Verdict(g, n) ==
  LET t == Group[g].tests[n]
      wrong == SelectSeq(t.body, LAMBDA c : ~Holds(c))
  IN  CASE Group[g].ctorThrows -> "ex"
        [] ~Group[g].ctorThrows /\ wrong = << >> ->
             IF t.dtorThrows THEN "warn" ELSE "ok"
        [] OTHER -> CASE Head(wrong).fn = "dummy" -> "no_such_test"
                      [] Head(wrong).fn = "throw" -> "ex"
                      [] Head(wrong).fn = "kill"  -> "term"
                      [] OTHER                    -> "fail"

(* The results a complete run of the registered groups has to report, in   *)
(* order: one for every test that is one, term if it kills the process.    *)
OfGroup(g) ==
  SelectSeq([n \in 1..NumTests(g) |-> TestResult(g, n, Verdict(g, n))],
            LAMBDA tr : tr.result # "no_such_test")
Expected ==
  FlattenSeq([g \in DOMAIN Group |-> IF g \in groups_ THEN OfGroup(g)
                                     ELSE << >>])

Reports(expected) ==
  /\ kills = 0 => os = expected
  /\ \A i \in DOMAIN expected : \E j \in DOMAIN os :
       os[j] \in {expected[i], [expected[i] EXCEPT !.result = "term"]}
  /\ \A j \in DOMAIN os : os[j].result = "term" \/ Contains(expected, os[j])

(* A finished run has reported every test: exactly once and in order when  *)
(* the process died in tests only, also when several tests in a row kill   *)
(* it; and at least once, with its own result or as terminated, when it    *)
(* was also killed between two steps.  What run_completed lists and sums   *)
(* up is what the reporter printed test by test.                           *)
EveryTestReported ==
  /\ pc = "completed" /\ mode \in {"all", "restartable"} => Reports(Expected)
  /\ pc = "completed" =>
       /\ report.problems = SelectSeq(os, LAMBDA tr : tr.result # "ok")
       /\ \A r \in Result :
            LET n == Len(SelectSeq(os, LAMBDA tr : tr.result = r))
            IN  IF r = "ok" \/ n > 0 THEN report.summary[r] = n
                ELSE r \notin DOMAIN report.summary

(* A restartable run ends with a report although tests kill the process.   *)
RunEnds == mode = "restartable" ~> pc = "completed"
=============================================================================
