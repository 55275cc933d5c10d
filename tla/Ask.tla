-------------------------------- MODULE Ask --------------------------------
(***************************************************************************)
(* Quick questions (ask.py): a request puts an ask with one pending answer *)
(* per contender into a bounded registry and submits a task for each to a  *)
(* pool; a task asks its contender, which is a CLI or an API (external),   *)
(* and records what came of it.                                            *)
(***************************************************************************)
EXTENDS Integers, FiniteSets, Sequences

CONSTANTS
  Requests,    \* bound: the lists of providers people choose
  MaxAsks,     \* bound: asks
  Cap,         \* MAX_TRACKED_ASKS
  Workers      \* max_workers of the pool

ASSUME AskAssumption ==
  /\ MaxAsks \in Nat /\ Cap \in Nat \ {0} /\ Workers \in Nat \ {0}
  /\ Requests \subseteq Seq({"claude", "codex", "openrouter", "ollama"})

VARIABLES
  asked,       \* asks put so far
  before,      \* asks put before the server was last started
  tracked,     \* _AskRegistry.asks, numbered in the order they were put
  answers,     \* ask -> its answers, as the workers hold them too
  submitting,  \* ask -> answers its request has not submitted yet, counted from the end
  tasks,       \* the queue of the pool
  working      \* answers its workers are getting

askVars == <<asked, before, tracked, answers, submitting, tasks, working>>

-----------------------------------------------------------------------------
(* What a contender makes of a question.  A CLI is not found, exceeds its   *)
(* timeout, cannot be run, or ends; claude prints a result that may be an   *)
(* error, codex prints messages and failures.                               *)
CliRuns == [found : BOOLEAN, ends : {"timeout", "raises", "exits"}, code : {0, 1},
            result : {"none", "text", "is_error"}]

parse_claude_output(r) == IF r.result = "text" /\ r.code = 0 THEN "done" ELSE "error"

(* Of codex's events a failure decides; a bad exit code only counts if there *)
(* was no message.                                                           *)
parse_codex_output(r) ==
  IF r.result = "is_error" \/ (r.result = "none" /\ r.code # 0) THEN "error" ELSE "done"

_ask_cli(provider, r) ==
  CASE ~r.found \/ r.ends # "exits" -> "error"
    [] OTHER -> IF provider = "claude" THEN parse_claude_output(r) ELSE parse_codex_output(r)

(* An API needs a key if it is OpenRouter; it times out or breaks, answers   *)
(* with an HTTP error, or with a body that may hold an answer.               *)
ApiReplies == [key : BOOLEAN, reply : {"timeout", "broken", "http_error", "not_json", "body"},
               content : BOOLEAN]

parse_chat_completion(a) == IF a.content THEN "done" ELSE "error"
_ask_api(provider, a) ==
  IF (provider = "openrouter" /\ ~a.key) \/ a.reply # "body" THEN "error"
  ELSE parse_chat_completion(a)

(* answer_one never raises; what crashes is an error.                        *)
answer_one(provider) ==
  {"error"} \cup (IF provider \in {"claude", "codex"}
                  THEN {_ask_cli(provider, r) : r \in CliRuns}
                  ELSE {_ask_api(provider, a) : a \in ApiReplies})

-----------------------------------------------------------------------------
(* put keeps the newest Cap asks.                                            *)
Oldest(asks) == CHOOSE i \in asks : \A j \in asks : i <= j
(* Mutant of Put: a full registry drops the new ask.                         *)
PutIfRoom(asks, i) == IF Cardinality(asks \cup {i}) > Cap THEN asks ELSE asks \cup {i}

Put(asks, i) == IF Cardinality(asks \cup {i}) > Cap
                THEN (asks \cup {i}) \ {Oldest(asks \cup {i})} ELSE asks \cup {i}

(* A request whose providers are all set up; what is set up may change       *)
(* before they are asked.                                                    *)
start_ask(request) ==
  /\ asked < MaxAsks
  /\ asked' = asked + 1
  /\ tracked' = Put(tracked, asked + 1)
  /\ answers' = [answers EXCEPT ![asked + 1] =
                   [c \in DOMAIN request |-> [provider |-> request[c], status |-> "pending"]]]
  /\ submitting' = [submitting EXCEPT ![asked + 1] = Len(request)]
  /\ UNCHANGED <<before, tasks, working>>

Submit(i) ==
  /\ submitting[i] > 0
  /\ tasks' = Append(tasks, <<i, Len(answers[i]) - submitting[i] + 1>>)
  /\ submitting' = [submitting EXCEPT ![i] = @ - 1]
  /\ UNCHANGED <<asked, before, tracked, answers, working>>

TakeTask ==
  /\ tasks # <<>> /\ Cardinality(working) < Workers
  /\ tasks' = Tail(tasks) /\ working' = working \cup {Head(tasks)}
  /\ UNCHANGED <<asked, before, tracked, answers, submitting>>

(* Mutant of _work: a contender that crashes takes its worker along.         *)
_workRaises(i, c) ==
  /\ <<i, c>> \in working
  /\ \/ \E status \in answer_one(answers[i][c].provider) :
          answers' = [answers EXCEPT ![i][c].status = status]
     \/ UNCHANGED answers
  /\ working' = working \ {<<i, c>>}
  /\ UNCHANGED <<asked, before, tracked, submitting, tasks>>

(* _work: the answer is updated under the lock, tracked or not.              *)
_work(i, c) ==
  /\ <<i, c>> \in working
  /\ \E status \in answer_one(answers[i][c].provider) :
       answers' = [answers EXCEPT ![i][c].status = status]
  /\ working' = working \ {<<i, c>>}
  /\ UNCHANGED <<asked, before, tracked, submitting, tasks>>

(* Nothing of this is on disk.                                               *)
AskCrash ==
  /\ before < asked /\ before' = asked
  /\ tracked' = {} /\ tasks' = <<>> /\ working' = {}
  /\ answers' = [i \in 1..MaxAsks |-> <<>>] /\ submitting' = [i \in 1..MaxAsks |-> 0]
  /\ UNCHANGED asked

-----------------------------------------------------------------------------
AskInit ==
  /\ asked = 0 /\ before = 0 /\ tracked = {} /\ tasks = <<>> /\ working = {}
  /\ answers = [i \in 1..MaxAsks |-> <<>>] /\ submitting = [i \in 1..MaxAsks |-> 0]

Work(i) == \E c \in DOMAIN answers[i] : _work(i, c)
AskNext ==
  \/ \E request \in Requests : start_ask(request)
  \/ TakeTask \/ AskCrash
  \/ \E i \in 1..MaxAsks : Submit(i) \/ Work(i)

(* Handlers go on, the pool's workers take what is queued, and what a worker *)
(* runs has a timeout.                                                       *)
AskFairness ==
  /\ WF_askVars(\E i \in 1..MaxAsks : Submit(i))
  /\ WF_askVars(TakeTask \/ \E i \in 1..MaxAsks : Work(i))

AskSpec == AskInit /\ [][AskNext]_askVars /\ AskFairness

-----------------------------------------------------------------------------
AskTypeOK ==
  /\ asked \in 0..MaxAsks /\ before \in 0..asked
  /\ tracked \subseteq 1..MaxAsks
  /\ submitting \in [1..MaxAsks -> Nat]
  /\ DOMAIN answers = 1..MaxAsks

(* The newest asks of this server are tracked, each with all of its answers, *)
(* and no others: "the oldest drop off past the cap" (_AskRegistry), however *)
(* the requests and the workers of older asks are interleaved.               *)
RecentIsKept ==
  \A i \in 1..MaxAsks : i \in tracked <=> i > before /\ i <= asked /\ i > asked - Cap

(* Every contender gets an outcome, also one whose ask has dropped off while *)
(* it was working: "a worker must always record an outcome" (answer_one).    *)
Pending(i) == \E c \in DOMAIN answers[i] : answers[i][c].status = "pending"
AskSettles == \A i \in 1..MaxAsks : Pending(i) ~> ~Pending(i)
=============================================================================
