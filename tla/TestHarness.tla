---------------------------- MODULE TestHarness ----------------------------
(***************************************************************************)
(* The test harness of util/testharness.cc.                                *)
(*                                                                         *)
(*  - RegisterTest, called by the TEST() macro while static objects of     *)
(*    every translation unit are initialised (in an order the language     *)
(*    leaves unspecified), appends to the lazily created vector tests.     *)
(*  - RunAllTests, called from main once static initialisation is over,    *)
(*    ignores that vector (its loop is commented out) and runs a fixed     *)
(*    list: for each entry it news a fixture, calls one method and deletes *)
(*    the fixture.  An ASSERT that fails ends the process with exit(1).    *)
(*  - While a fixture runs, its code may call TmpDir, which goes through   *)
(*    Env::Default's call_once and GetTestDirectory, and RandomSeed, which *)
(*    parses TEST_RANDOM_SEED with atoi.                                   *)
(*                                                                         *)
(* Test names are records [cls, m]; a TEST_RANDOM_SEED value is NoEnv      *)
(* (getenv returned NULL) or the int atoi makes of it.                    *)
(***************************************************************************)
EXTENDS Integers, Sequences, SequencesExt

CONSTANTS
    Registrations,   \* the tests TEST() macros register, [cls, m] records
    EnvValues,       \* values getenv("TEST_RANDOM_SEED") may return
    NoEnv,           \* getenv returned NULL
    Outcomes         \* what a fixture method may do: SUBSET {"pass", "fail"}

Running == -1                \* exitCode while the process runs

(* RunAllTests' fixed list, lines 61-107: one fixture object per entry.    *)
RunList ==
    <<[cls |-> "AutoCompactTest", m |-> "DoReads"]>> \o
    [i \in 1..12 |-> [cls |-> "CorruptionTest", m |->
        <<"RecoveryTest", "RecoverWriteError", "NewFileErrorDuringWrite",
          "TableFile", "TableFileRepair", "TableFileIndexData",
          "MissingDescriptor", "SequenceNumberRecovery", "CorruptedDescriptor",
          "CompactionInputError", "CompactionInputErrorParanoid",
          "UnrelatedKeys">>[i]]] \o
    <<[cls |-> "DBTestRunner", m |-> "RunAllTests"]>>

(* RandomSeed, lines 127-134.  atoi is the C runtime's, not this          *)
(* repository's: a TEST_RANDOM_SEED value is given here by the int atoi    *)
(* returns for it (0 for a value that is not a number).                    *)
RandomSeed(env) ==
    LET result == IF env = NoEnv THEN 301 ELSE env
    IN IF result <= 0 THEN 301 ELSE result

-----------------------------------------------------------------------------
VARIABLES
    tests,        \* the pointer tests is non-NULL
    vec,          \* the vector *tests
    registered,   \* history: tests whose RegisterTest call returned
    pc,           \* "static_init", "new", "run", "delete", "return", "exit"
    idx,          \* the RunList entry RunAllTests is at
    live,         \* RunList entries whose fixture is constructed, not deleted
    ran,          \* history: RunList entries whose method returned
    defaultEnv,   \* default_env has been constructed
    envInits,     \* history: how often InitDefaultEnv ran
    env,          \* getenv("TEST_RANDOM_SEED"), fixed for the process
    seeds,        \* history: the values RandomSeed returned
    exitCode      \* Running, or the process's exit status

vars == <<tests, vec, registered, pc, idx, live, ran, defaultEnv, envInits, env, seeds, exitCode>>

Init ==
    /\ tests = FALSE /\ vec = <<>> /\ registered = {}
    /\ pc = "static_init" /\ idx = 1 /\ live = {} /\ ran = <<>>
    /\ defaultEnv = FALSE /\ envInits = 0
    /\ env \in EnvValues /\ seeds = {}
    /\ exitCode = Running

(* RegisterTest, lines 28-38: create the vector if the pointer is NULL,    *)
(* then push_back.                                                         *)
RegisterTest(r) ==
    /\ pc = "static_init" /\ r \in Registrations \ registered
    /\ tests' = TRUE
    /\ vec' = IF ~tests THEN <<r>> ELSE Append(vec, r)
    /\ registered' = registered \cup {r}
    /\ UNCHANGED <<pc, idx, live, ran, defaultEnv, envInits, env, seeds, exitCode>>

(* main runs once every static initialiser has: RunAllTests starts.        *)
Main ==
    /\ pc = "static_init" /\ registered = Registrations
    /\ pc' = "new"
    /\ UNCHANGED <<tests, vec, registered, idx, live, ran, defaultEnv, envInits, env, seeds, exitCode>>

(* new AutoCompactTest() / new CorruptionTest() / new DBTestRunner().      *)
NewFixture ==
    /\ pc = "new"
    /\ live' = live \cup {idx}
    /\ pc' = "run"
    /\ UNCHANGED <<tests, vec, registered, idx, ran, defaultEnv, envInits, env, seeds, exitCode>>

(* TmpDir, lines 120-125, called by the running fixture: Env::Default()   *)
(* runs InitDefaultEnv under call_once; GetTestDirectory always returns    *)
(* OK, so the ASSERT_TRUE passes.                                          *)
\* Mutant: InitDefaultEnv runs on every Env::Default() call.
TmpDirNoOnce ==
    /\ pc = "run"
    /\ defaultEnv' = TRUE
    /\ envInits' = envInits + 1
    /\ UNCHANGED <<tests, vec, registered, pc, idx, live, ran, env, seeds, exitCode>>

TmpDir ==
    /\ pc = "run"
    /\ defaultEnv' = TRUE
    /\ envInits' = IF defaultEnv THEN envInits ELSE envInits + 1
    /\ UNCHANGED <<tests, vec, registered, pc, idx, live, ran, env, seeds, exitCode>>

(* RandomSeed called by the running fixture.                               *)
CallRandomSeed ==
    /\ pc = "run"
    /\ seeds' = seeds \cup {RandomSeed(env)}
    /\ UNCHANGED <<tests, vec, registered, pc, idx, live, ran, defaultEnv, envInits, env, exitCode>>

(* The fixture's method returns, or an ASSERT fails and exit(1) ends the   *)
(* process with the fixture still alive.                                   *)
RunMethod ==
    /\ pc = "run"
    /\ \E o \in Outcomes :
          IF o = "pass"
          THEN /\ ran' = Append(ran, RunList[idx]) /\ pc' = "delete"
               /\ UNCHANGED exitCode
          ELSE /\ exitCode' = 1 /\ pc' = "exit"
               /\ UNCHANGED ran
    /\ UNCHANGED <<tests, vec, registered, idx, live, defaultEnv, envInits, env, seeds>>

(* delete ac / ct / dt, then the next entry, or return 0 after the last.   *)
DeleteFixture ==
    /\ pc = "delete"
    /\ live' = live \ {idx}
    /\ IF idx < Len(RunList) THEN idx' = idx + 1 /\ pc' = "new"
                             ELSE pc' = "return" /\ UNCHANGED idx
    /\ UNCHANGED <<tests, vec, registered, ran, defaultEnv, envInits, env, seeds, exitCode>>

(* return 0 from RunAllTests, and main returns it.                         *)
Return ==
    /\ pc = "return"
    /\ exitCode' = 0 /\ pc' = "exit"
    /\ UNCHANGED <<tests, vec, registered, idx, live, ran, defaultEnv, envInits, env, seeds>>

\* The process has exited.
Terminated == pc = "exit" /\ UNCHANGED vars

Next ==
    \/ \E r \in Registrations : RegisterTest(r)
    \/ Main \/ NewFixture \/ TmpDir \/ CallRandomSeed \/ RunMethod
    \/ DeleteFixture \/ Return \/ Terminated

(* One thread runs static initialisation and then main.                    *)
Spec == Init /\ [][Next]_vars /\ WF_vars(Next)

-----------------------------------------------------------------------------
TypeOK ==
    /\ pc \in {"static_init", "new", "run", "delete", "return", "exit"}
    /\ idx \in 1..Len(RunList)
    /\ live \subseteq 1..Len(RunList)
    /\ registered \subseteq Registrations
    /\ envInits \in 0..1
    /\ exitCode \in {Running, 0, 1}

(* Every test registered through TEST() is run before main exits with 0,   *)
(* as RunAllTests' name and its commented-out loop over tests promise.     *)
RegisteredTestsRun == exitCode = 0 => registered \subseteq ToSet(ran)
=============================================================================
