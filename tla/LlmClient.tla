------------------------------ MODULE LlmClient ------------------------------
(***************************************************************************)
(* The HTTP client of a session (llm/client.py): one Client object, whose  *)
(* connection pool, `_aborted' flag and API key are shared by every        *)
(* request made on it.                                                     *)
(*                                                                         *)
(* Workers are the agent threads of successive runs: a run the user        *)
(* abandoned with Ctrl-C winds down in its daemon thread, and asks for the *)
(* session title, while the next run is already sending.  Each of them is  *)
(* inside chat() most of the time.  The user's thread cancels              *)
(* (Session.cancel calls Client.abort) and switches the model              *)
(* (Session.switch_model calls Client.set_timeout).  The server and the    *)
(* network answer, fail or go silent at will.                              *)
(*                                                                         *)
(* A pool is told apart only by what has become of it: a request runs on   *)
(* the current pool, on one that abort() has replaced and will cut, on one *)
(* whose sockets were cut, or on a closed one.                             *)
(***************************************************************************)
EXTENDS Integers, FiniteSets

CONSTANTS
  Runs,          \* how many runs the user starts
  RetryMax,      \* Client.retry_max
  MaxChats,      \* bound: requests a run makes before it ends
  MaxSwitches,   \* bound: model switches
  MaxKeys        \* bound: times a new API key is written

ASSUME RunsAssumption == Runs \in Nat \ {0}
ASSUME RetryMaxAssumption == RetryMax \in Nat \ {0}
ASSUME LimitsAssumption == MaxChats \in Nat /\ MaxSwitches \in Nat /\ MaxKeys \in Nat

Workers == 1..Runs
(* A turn is polled for a cancel and streamed; a compaction is a turn      *)
(* without deltas; a title or a /summary passes no cancel_check.           *)
Kinds == {"turn", "title"}
Faults == {"none", "retryable", "auth", "connection", "permanent"}
PoolStates == {"none", "current", "replaced", "cut", "closed"}
WorkerPcs == {"idle", "ready", "send", "opening", "reading", "reset", "handle", "refresh", "over"}
UserPcs == {"prompt", "abort", "cut", "close"}

VARIABLES
  pool,          \* pool[w]: what has become of the pool w's request runs on
  poisoned,      \* self._http holds a connection whose request failed
  aborted,       \* self._aborted
  key, keyFile,  \* self.api_key, and the key the configuration holds
  run,           \* the latest run started
  cancelled,     \* workers whose cancel_check answers True
  switches,      \* model switches so far
  user, pc,      \* the place of the user's thread, and of each worker
  kind,          \* what the worker's request is for
  attempt, refreshed, emitted, \* the locals of chat()
  fault,         \* the exception being handled
  shown,         \* attempts of the request whose text the live view shows
  chats,         \* requests a run has made
  late           \* history: attempts a turn sent after its cancel

poolVars == <<pool, poisoned>>
keyVars == <<key, keyFile>>
userVars == <<run, cancelled, switches, user>>
callVars == <<kind, attempt, refreshed, emitted, fault, shown>>
boundVars == <<chats, late>>
vars == <<poolVars, aborted, keyVars, userVars, pc, callVars, boundVars>>

Init ==
  /\ pool = [w \in Workers |-> "none"] /\ poisoned = FALSE /\ aborted = FALSE
  /\ key = 0 /\ keyFile = 0
  /\ run = 1 /\ cancelled = {} /\ switches = 0 /\ user = "prompt"
  /\ pc = [w \in Workers |-> "idle"]
  /\ kind = [w \in Workers |-> "turn"]
  /\ attempt = [w \in Workers |-> 0]
  /\ refreshed = [w \in Workers |-> FALSE] /\ emitted = [w \in Workers |-> FALSE]
  /\ fault = [w \in Workers |-> "none"]
  /\ shown = [w \in Workers |-> {}]
  /\ chats = [w \in Workers |-> 0] /\ late = [w \in Workers |-> 0]

-----------------------------------------------------------------------------
(* Shared helpers.                                                         *)

MustStop(w) == kind[w] = "turn" /\ w \in cancelled
Goto(w, place) == pc' = [pc EXCEPT ![w] = place]

(* A new pool takes the current one's place, and that one becomes `fate'.  *)
(* Closing does not wake a read that is blocked in the kernel; it fails    *)
(* when it next touches the socket.                                        *)
ReplacePool(fate) ==
  /\ pool' = [w \in Workers |-> IF pool[w] = "current" THEN fate ELSE pool[w]]
  /\ poisoned' = FALSE

(* on_retry: the view drops the partial text of the failed attempt.        *)
ClearsView(w) == shown' = [shown EXCEPT ![w] = {}]

(* chat() returns or raises: the worker is back in its loop.               *)
Leaves(w) ==
  /\ Goto(w, "idle")
  /\ kind' = [kind EXCEPT ![w] = "turn"]
  /\ fault' = [fault EXCEPT ![w] = "none"] /\ pool' = [pool EXCEPT ![w] = "none"]
  /\ attempt' = [attempt EXCEPT ![w] = 0]
  /\ refreshed' = [refreshed EXCEPT ![w] = FALSE] /\ emitted' = [emitted EXCEPT ![w] = FALSE]
  /\ ClearsView(w)
  /\ UNCHANGED <<poisoned, aborted, keyVars, userVars, boundVars>>

-----------------------------------------------------------------------------
(* One chat().                                                             *)

(* The agent loop checks for a cancel before a turn; the title of an       *)
(* interrupted run is asked for all the same.  An abort that came before   *)
(* is forgotten.                                                           *)
StartChat(w, k) ==
  /\ pc[w] = "idle" /\ w <= run /\ chats[w] < MaxChats
  /\ k = "turn" => w \notin cancelled
  /\ kind' = [kind EXCEPT ![w] = k]
  /\ chats' = [chats EXCEPT ![w] = @ + 1]
  /\ aborted' = FALSE
  /\ Goto(w, "ready")
  /\ UNCHANGED <<poolVars, keyVars, userVars, attempt, refreshed, emitted, fault, shown, late>>

(* The top of the retry loop, and the backoff sleep before it: both poll   *)
(* for a cancel.                                                           *)
BeginAttempt_Unchecked(w) ==
  /\ pc[w] = "ready"
  /\ attempt' = [attempt EXCEPT ![w] = @ + 1]
  /\ emitted' = [emitted EXCEPT ![w] = FALSE] /\ fault' = [fault EXCEPT ![w] = "none"]
  /\ Goto(w, "send")
  /\ UNCHANGED <<poolVars, aborted, keyVars, userVars, kind, refreshed, shown, boundVars>>
BeginAttempt(w) ==
  /\ pc[w] = "ready" /\ ~MustStop(w)
  /\ attempt' = [attempt EXCEPT ![w] = @ + 1]
  /\ emitted' = [emitted EXCEPT ![w] = FALSE] /\ fault' = [fault EXCEPT ![w] = "none"]
  /\ Goto(w, "send")
  /\ UNCHANGED <<poolVars, aborted, keyVars, userVars, kind, refreshed, shown, boundVars>>
RefuseAttempt(w) == pc[w] = "ready" /\ MustStop(w) /\ Leaves(w)

(* self._http is read, and then the request is opened on it.               *)
Send(w) ==
  /\ pc[w] = "send"
  /\ pool' = [pool EXCEPT ![w] = "current"]
  /\ late' = [late EXCEPT ![w] = IF MustStop(w) THEN @ + 1 ELSE @]
  /\ Goto(w, "opening")
  /\ UNCHANGED <<poisoned, aborted, keyVars, userVars, callVars, chats>>
Open(w) ==
  /\ pc[w] = "opening" /\ pool[w] # "closed"
  /\ Goto(w, "reading")
  /\ UNCHANGED <<poolVars, aborted, keyVars, userVars, callVars, boundVars>>

(* An attempt fails with an exception of kind f.  Unless the server said   *)
(* so in its status, the connection stays in the pool in an unknown state. *)
Fails(w, f) ==
  /\ fault' = [fault EXCEPT ![w] = f]
  /\ poisoned' = (poisoned \/ (pool[w] = "current" /\ f \in {"connection", "permanent"}))
  /\ pool' = [pool EXCEPT ![w] = "none"]
  /\ Goto(w, IF f = "retryable" THEN "handle" ELSE "reset")
  /\ UNCHANGED <<aborted, keyVars, userVars, kind, attempt, refreshed, emitted, shown, boundVars>>

(* The pool was closed between the two: httpx raises a RuntimeError, which *)
(* is no transport error.                                                  *)
OpenOnClosedPool(w) == pc[w] = "opening" /\ pool[w] = "closed" /\ Fails(w, "permanent")

(* A connect error, a timeout, a dropped stream, or a socket that abort()  *)
(* or a closed pool took away.                                             *)
ConnectionFails(w) == pc[w] = "reading" /\ Fails(w, "connection")

(* The server's status line, which comes before any text.                  *)
Hears(w) == pc[w] = "reading" /\ pool[w] # "cut"
StatusFails(w, f) ==
  /\ Hears(w) /\ ~emitted[w] /\ f \in {"retryable", "auth", "permanent"}
  /\ Fails(w, f)

(* One SSE line: text, or the end of a turn that must stop, or an error    *)
(* object.  The callbacks of a non-streamed answer fire at its end.        *)
StreamText(w) ==
  /\ Hears(w) /\ kind[w] = "turn" /\ ~MustStop(w)
  /\ emitted' = [emitted EXCEPT ![w] = TRUE]
  /\ shown' = [shown EXCEPT ![w] = @ \cup {attempt[w]}]
  /\ UNCHANGED <<poolVars, aborted, keyVars, userVars, pc, kind, attempt, refreshed, fault, boundVars>>
StopAtLine(w) == Hears(w) /\ MustStop(w) /\ Fails(w, "permanent")
ErrorObject(w) == Hears(w) /\ emitted[w] /\ Fails(w, "permanent")
Complete(w) == Hears(w) /\ Leaves(w)

(* _reset_http by a worker, whatever pool its own request was on.          *)
ResetHttp(w) ==
  /\ pc[w] = "reset"
  /\ ReplacePool("closed")
  /\ Goto(w, "handle")
  /\ UNCHANGED <<aborted, keyVars, userVars, callVars, boundVars>>

(* The except branches, after their reset: whether the request is retried. *)
RetriesTransient_OneMore(w) ==
  /\ attempt[w] <= RetryMax
  /\ fault[w] = "connection" => ~aborted
RetriesTransient(w) ==
  /\ attempt[w] < RetryMax
  /\ fault[w] = "connection" => ~aborted
RetryTransient_KeepsText(w) ==
  /\ pc[w] = "handle" /\ fault[w] \in {"retryable", "connection"} /\ RetriesTransient(w)
  /\ Goto(w, "ready")
  /\ UNCHANGED <<poolVars, aborted, keyVars, userVars, callVars, boundVars>>
RetryTransient(w) ==
  /\ pc[w] = "handle" /\ fault[w] \in {"retryable", "connection"} /\ RetriesTransient(w)
  /\ IF fault[w] = "connection" \/ emitted[w] THEN ClearsView(w) ELSE UNCHANGED shown
  /\ Goto(w, "ready")
  /\ UNCHANGED <<poolVars, aborted, keyVars, userVars, kind, attempt, refreshed, emitted, fault,
                 boundVars>>
SeekKey(w) ==
  /\ pc[w] = "handle" /\ fault[w] = "auth" /\ ~refreshed[w]
  /\ Goto(w, "refresh")
  /\ UNCHANGED <<poolVars, aborted, keyVars, userVars, callVars, boundVars>>
GiveUp(w) ==
  /\ pc[w] = "handle"
  /\ CASE fault[w] \in {"retryable", "connection"} -> ~RetriesTransient(w)
       [] fault[w] = "auth" -> refreshed[w]
       [] OTHER -> TRUE
  /\ Leaves(w)

(* _refresh_api_key: polls until a new key is there, 30 seconds are over   *)
(* or the cancel is seen; the key is looked at first.                      *)
KeyFound(w) ==
  /\ pc[w] = "refresh" /\ keyFile # key
  /\ key' = keyFile
  /\ refreshed' = [refreshed EXCEPT ![w] = TRUE]
  /\ IF emitted[w] THEN ClearsView(w) ELSE UNCHANGED shown
  /\ Goto(w, "ready")
  /\ UNCHANGED <<poolVars, aborted, keyFile, userVars, kind, attempt, emitted, fault, boundVars>>
KeyNotFound_NoDeadline(w) ==
  pc[w] = "refresh" /\ keyFile = key /\ MustStop(w) /\ Leaves(w)
KeyNotFound(w) == pc[w] = "refresh" /\ keyFile = key /\ Leaves(w)

EndRun(w) ==
  /\ pc[w] = "idle" /\ w <= run /\ Goto(w, "over")
  /\ UNCHANGED <<poolVars, aborted, keyVars, userVars, callVars, boundVars>>

-----------------------------------------------------------------------------
(* The user's thread, and whatever writes the configuration.               *)

(* The prompt is back when the run is over or was abandoned.               *)
AtPrompt == user = "prompt" /\ (pc[run] = "over" \/ run \in cancelled)

Submit ==
  /\ AtPrompt /\ run < Runs
  /\ run' = run + 1
  /\ UNCHANGED <<poolVars, aborted, keyVars, cancelled, switches, user, pc, callVars, boundVars>>

(* Session.cancel: every run so far must stop; then Client.abort, which    *)
(* wakes the reads blocked on the old pool before it closes it.            *)
Cancel ==
  /\ user = "prompt" /\ ~AtPrompt
  /\ cancelled' = 1..run
  /\ user' = "abort"
  /\ UNCHANGED <<poolVars, aborted, keyVars, run, switches, pc, callVars, boundVars>>
AbortSwaps ==
  /\ user = "abort"
  /\ aborted' = TRUE
  /\ ReplacePool("replaced")
  /\ user' = "cut"
  /\ UNCHANGED <<keyVars, run, cancelled, switches, pc, callVars, boundVars>>
AbortCuts ==
  /\ user = "cut"
  /\ pool' = [w \in Workers |-> IF pool[w] = "replaced" /\ pc[w] = "reading" THEN "cut" ELSE pool[w]]
  /\ user' = "close"
  /\ UNCHANGED <<poisoned, aborted, keyVars, run, cancelled, switches, pc, callVars, boundVars>>
AbortCloses ==
  /\ user = "close"
  /\ pool' = [w \in Workers |-> IF pool[w] = "replaced" THEN "closed" ELSE pool[w]]
  /\ user' = "prompt"
  /\ UNCHANGED <<poisoned, aborted, keyVars, run, cancelled, switches, pc, callVars, boundVars>>

(* switch_model: set_timeout replaces the pool.                            *)
SwitchModel ==
  /\ AtPrompt /\ switches < MaxSwitches
  /\ switches' = switches + 1
  /\ ReplacePool("closed")
  /\ UNCHANGED <<aborted, keyVars, run, cancelled, user, pc, callVars, boundVars>>

(* A token refresh script writes a new key.                                *)
WriteKey ==
  /\ keyFile < MaxKeys /\ keyFile' = keyFile + 1
  /\ UNCHANGED <<poolVars, aborted, key, userVars, pc, callVars, boundVars>>

-----------------------------------------------------------------------------
(* What the worker does by itself, and what it waits for: the server sends *)
(* the rest of its answer, or the read times out.                          *)
Compute(w) ==
  BeginAttempt(w) \/ RefuseAttempt(w) \/ Send(w) \/ Open(w) \/ OpenOnClosedPool(w)
    \/ ResetHttp(w) \/ RetryTransient(w) \/ SeekKey(w) \/ GiveUp(w) \/ KeyFound(w) \/ KeyNotFound(w)
AwaitNetwork(w) ==
  ConnectionFails(w) \/ (\E f \in Faults : StatusFails(w, f)) \/ StreamText(w) \/ StopAtLine(w)
    \/ ErrorObject(w) \/ Complete(w)
Chat(w) == Compute(w) \/ AwaitNetwork(w)
Aborting == AbortSwaps \/ AbortCuts \/ AbortCloses

Next ==
  \/ \E w \in Workers : Chat(w) \/ EndRun(w) \/ \E k \in Kinds : StartChat(w, k)
  \/ Submit \/ Cancel \/ Aborting \/ SwitchModel \/ WriteKey

(* Threads run, and every read returns.                                    *)
Fairness == \A w \in Workers : WF_vars(Chat(w))

Spec == Init /\ [][Next]_vars /\ Fairness

-----------------------------------------------------------------------------
TypeOK ==
  /\ pool \in [Workers -> PoolStates] /\ poisoned \in BOOLEAN /\ aborted \in BOOLEAN
  /\ key \in 0..MaxKeys /\ keyFile \in 0..MaxKeys
  /\ run \in Workers /\ cancelled \subseteq Workers /\ switches \in 0..MaxSwitches
  /\ user \in UserPcs /\ pc \in [Workers -> WorkerPcs]
  /\ kind \in [Workers -> Kinds] /\ attempt \in [Workers -> 0..(RetryMax + 1)]
  /\ refreshed \in [Workers -> BOOLEAN] /\ emitted \in [Workers -> BOOLEAN]
  /\ fault \in [Workers -> Faults]
  /\ shown \in [Workers -> SUBSET Nat]
  /\ chats \in [Workers -> 0..MaxChats] /\ late \in [Workers -> Nat]

(* A connection whose request died is never left for the next request: the *)
(* pool that holds it is replaced before the failing request's handler     *)
(* decides anything (_reset_http, in each of the except branches).         *)
PoisonIsReplaced == poisoned => \E w \in Workers : pc[w] = "reset"

(* The live view never shows text of two attempts of one request: a retry  *)
(* after partial output first clears it (on_retry in chat).                *)
LiveTextIsOneAttempt == \A w \in Workers : Cardinality(shown[w]) <= 1

(* A request is opened at most retry_max times, once more for a refreshed  *)
(* key, whichever faults alternate (the single counter of chat's loop).    *)
RetriesBounded ==
  \A w \in Workers : attempt[w] <= RetryMax + (IF refreshed[w] THEN 1 ELSE 0)

(* After the user's cancel a run opens at most the one request that was    *)
(* past its last check (cancel_check at the top of each attempt).          *)
CancelStopsRequests == \A w \in Workers : late[w] <= 1

(* Every chat() returns or raises, whatever mix of retries, key refreshes, *)
(* aborts and requests of other runs it meets.                             *)
ChatsEnd == \A w \in Workers : pc[w] = "ready" ~> pc[w] = "idle"
=============================================================================
