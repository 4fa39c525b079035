---------------------------- MODULE TokenService ----------------------------
(***************************************************************************)
(* The token service (internal/token): the queue whose one routine handles *)
(* the requests of connections, accessors, the refresher and the retries   *)
(* after PermissionDenied, and the identity provider's token in memory and *)
(* in its file (internal/token/identity).  A token is the user it was made *)
(* for.  The server is external: for a session it makes a token of the     *)
(* session's user, for a refresh one of the user of the token shown.       *)
(***************************************************************************)
EXTENDS Naturals

CONSTANTS Clients,    \* connections of other processes and accessors
          Listeners,  \* the services that report errors to OnError
          Owners,     \* the users a robot may belong to
          MaxAsks,    \* how many requests and errors come
          MaxBoots    \* how often the service is started again

ASSUME TokenAssumption == MaxAsks \in Nat /\ MaxBoots \in Nat

Refresher == "refresher"
Actors == Clients \cup Listeners \cup {Refresher}
NoToken == "none"
Tokens == Owners \cup {NoToken}
JwtKinds == {"Jwt", "ForceRefresh"}
Kinds == {"Auth", "Secondary", "Reassociate"} \cup JwtKinds

VARIABLES
  call,      \* actor -> its request: where it is, its kind, whose session it
             \* shows, the token it works with, and how it ended
  memory,    \* currentToken
  file,      \* the token in token.jwt
  due,       \* the refresh time of the token in memory is past
  halted,    \* the queue's routine has returned
  retrier,   \* listener -> "none", "checked", "started" or "retrying"
  backoff,   \* a backoff is set
  denied,    \* a retry got PermissionDenied
  bound,     \* history: the user whom the last Auth stored a token for, or
             \* nobody if that file was removed since
  asks, boots

tokenVars ==
  <<call, memory, file, due, halted, retrier, backoff, denied, bound, asks, boots>>

NoCall == [at |-> "none", kind |-> "Jwt", user |-> NoToken, token |-> NoToken, err |-> "nil"]
Handled == {"contacting", "saving", "storing", "answering"}

Asking(a, kind, user) ==
  call' = [call EXCEPT ![a] = [NoCall EXCEPT !.at = "asking", !.kind = kind, !.user = user]]

Count == asks < MaxAsks /\ asks' = asks + 1

\* handleRequest of a connection or of an accessor, which asks for a Jwt.
Ask(c, kind) ==
  /\ call[c].at = "none" /\ Count
  /\ \E user \in IF kind \in {"Auth", "Reassociate"} THEN Owners ELSE {NoToken} :
       Asking(c, kind, user)
  /\ UNCHANGED <<memory, file, due, halted, retrier, backoff, denied, bound, boots>>

RefresherAsks ==
  /\ call[Refresher].at = "none" /\ memory # NoToken /\ due
  /\ Asking(Refresher, "Jwt", NoToken)
  /\ UNCHANGED <<memory, file, due, halted, retrier, backoff, denied, bound, asks, boots>>

Age ==
  /\ memory # NoToken /\ ~due
  /\ due' = TRUE
  /\ UNCHANGED <<call, memory, file, halted, retrier, backoff, denied, bound, asks, boots>>

-----------------------------------------------------------------------------
At(a, place) == call' = [call EXCEPT ![a].at = place]

\* The token a request is answered with, or the error, stays in the request.
Answering(a, token, err) ==
  call' = [call EXCEPT ![a].at = "answering", ![a].token = token, ![a].err = err]

\* Mutant: requests do not wait for each other.
QueueIsNeverBusy == TRUE

QueueIsFree == \A a \in Actors : call[a].at \notin Handled

\* handleRequest of the queue, up to the call of the server, if there is one.
Receive(a) ==
  /\ call[a].at = "asking" /\ ~halted /\ QueueIsFree
  /\ IF call[a].kind \in {"Auth", "Reassociate"} THEN At(a, "contacting")
     ELSE IF memory = NoToken THEN Answering(a, NoToken, "nil")
     ELSE IF call[a].kind = "Jwt" /\ ~due THEN Answering(a, memory, "nil")
     ELSE call' = [call EXCEPT ![a].at = "contacting", ![a].token = memory]
  /\ UNCHANGED <<memory, file, due, halted, retrier, backoff, denied, bound, asks, boots>>

\* No connection, or the server refuses.
ContactFails(a) ==
  /\ call[a].at = "contacting"
  /\ \E err \in {"failed", "PermissionDenied"} : Answering(a, NoToken, err)
  /\ UNCHANGED <<memory, file, due, halted, retrier, backoff, denied, bound, asks, boots>>

\* What is made for a further client is passed on and not stored.
Contact(a) ==
  /\ call[a].at = "contacting"
  /\ CASE call[a].kind = "Auth" ->
            call' = [call EXCEPT ![a].at = "saving", ![a].token = call[a].user]
       [] call[a].kind \in JwtKinds -> At(a, "saving")
       [] OTHER -> Answering(a, NoToken, "nil")
  /\ UNCHANGED <<memory, file, due, halted, retrier, backoff, denied, bound, asks, boots>>

\* The token cannot be parsed, or the file not be written or renamed.
SaveFails(a) ==
  /\ call[a].at = "saving"
  /\ Answering(a, NoToken, "failed")
  /\ UNCHANGED <<memory, file, due, halted, retrier, backoff, denied, bound, asks, boots>>

\* saveToken: the renaming makes the new token the file.
Save(a) ==
  /\ call[a].at = "saving"
  /\ file' = call[a].token
  /\ bound' = IF call[a].kind = "Auth" THEN call[a].user ELSE bound
  /\ At(a, "storing")
  /\ UNCHANGED <<memory, due, halted, retrier, backoff, denied, asks, boots>>

Store(a) ==
  /\ call[a].at = "storing"
  /\ memory' = call[a].token /\ due' = FALSE
  /\ At(a, "answering")
  /\ UNCHANGED <<file, halted, retrier, backoff, denied, bound, asks, boots>>

\* retry: what the routine that retries makes of its answer.  It may give up after
\* any failure, when its time is over or another's reset ended its context.
Retried(l) ==
  /\ denied' = (denied \/ call[l].err = "PermissionDenied")
  /\ \E over \in BOOLEAN :
       /\ call[l].err # "failed" => over
       /\ retrier' = [retrier EXCEPT ![l] = IF over THEN "none" ELSE @]
       /\ backoff' = (backoff /\ ~over)

AnswerRequest(a) ==
  /\ call[a].at = "answering"
  /\ call' = [call EXCEPT ![a] = NoCall]
  /\ IF a \in Listeners THEN Retried(a)
     ELSE /\ denied' = (denied /\ ~(call[a].err = "nil" /\ call[a].kind \notin JwtKinds))
          /\ UNCHANGED <<retrier, backoff>>
  /\ UNCHANGED <<memory, file, due, halted, bound, asks, boots>>

\* The context is done: whoever asks now waits for ever.
StopQueue ==
  /\ ~halted /\ QueueIsFree
  /\ halted' = TRUE
  /\ UNCHANGED <<call, memory, file, due, retrier, backoff, denied, bound, asks, boots>>

-----------------------------------------------------------------------------
\* OnError looks whether to retry and sets the backoff, without a lock; its
\* goroutine reads the backoff again and breaks down when another reset it.  Each
\* listener has one such goroutine at a time here.
NoticeDenial(l) ==
  /\ retrier[l] = "none" /\ ~backoff /\ ~denied /\ Count
  /\ retrier' = [retrier EXCEPT ![l] = "checked"]
  /\ UNCHANGED <<call, memory, file, due, halted, backoff, denied, bound, boots>>

SetBackoff(l) ==
  /\ retrier[l] = "checked"
  /\ retrier' = [retrier EXCEPT ![l] = "started"]
  /\ backoff' = TRUE
  /\ UNCHANGED <<call, memory, file, due, halted, denied, bound, asks, boots>>

StartRetrying(l) ==
  /\ retrier[l] = "started" /\ backoff
  /\ retrier' = [retrier EXCEPT ![l] = "retrying"]
  /\ UNCHANGED <<call, memory, file, due, halted, backoff, denied, bound, asks, boots>>

RetryNow(l) ==
  /\ retrier[l] = "retrying" /\ call[l].at = "none"
  /\ Asking(l, "ForceRefresh", NoToken)
  /\ UNCHANGED <<memory, file, due, halted, retrier, backoff, denied, bound, asks, boots>>

\* init: the file becomes the memory.
ReadToken ==
  /\ memory' = file /\ due' \in {FALSE, file # NoToken} /\ halted' = FALSE
  /\ UNCHANGED <<file, bound>>

\* What is in the file names no user or, as the file is not synced when it is
\* written, does not parse: it is removed.  If it does not parse the process ends
\* at once.
RemoveToken ==
  /\ file # NoToken
  /\ file' = NoToken /\ memory' = NoToken /\ bound' = NoToken
  /\ due' = FALSE /\ halted' \in BOOLEAN

\* The process ends at any point, also by StartRetrying without a backoff, and
\* starts again.
Reboot ==
  /\ boots < MaxBoots
  /\ boots' = boots + 1
  /\ ReadToken \/ RemoveToken
  /\ call' = [a \in Actors |-> NoCall]
  /\ retrier' = [l \in Listeners |-> "none"] /\ backoff' = FALSE /\ denied' = FALSE
  /\ UNCHANGED asks

TokenStart ==
  /\ memory = file /\ bound = file
  /\ call = [a \in Actors |-> NoCall]
  /\ retrier = [l \in Listeners |-> "none"] /\ backoff = FALSE /\ denied = FALSE

TokenInit ==
  /\ file \in Tokens /\ due \in {FALSE, file # NoToken} /\ asks = 0 /\ boots = 0
  /\ halted = FALSE /\ TokenStart

\* The service is not running.
TokenIdle ==
  /\ file = NoToken /\ due = FALSE /\ asks = MaxAsks /\ boots = MaxBoots
  /\ halted = TRUE /\ TokenStart

TokenNext ==
  \/ \E c \in Clients : \E kind \in Kinds : Ask(c, kind)
  \/ RefresherAsks \/ Age \/ StopQueue \/ Reboot
  \/ \E a \in Actors :
       \/ Receive(a) \/ Contact(a) \/ ContactFails(a)
       \/ Save(a) \/ SaveFails(a) \/ Store(a) \/ AnswerRequest(a)
  \/ \E l \in Listeners :
       NoticeDenial(l) \/ SetBackoff(l) \/ StartRetrying(l) \/ RetryNow(l)

TokenSpec == TokenInit /\ [][TokenNext]_tokenVars

-----------------------------------------------------------------------------
TokenTypeOK ==
  /\ call \in [Actors -> [at : {"none", "asking"} \cup Handled, kind : Kinds, user : Tokens,
                          token : Tokens, err : {"nil", "failed", "PermissionDenied"}]]
  /\ memory \in Tokens /\ file \in Tokens /\ bound \in Tokens
  /\ due \in BOOLEAN /\ halted \in BOOLEAN /\ backoff \in BOOLEAN /\ denied \in BOOLEAN
  /\ retrier \in [Listeners -> {"none", "checked", "started", "retrying"}]
  /\ asks \in 0..MaxAsks /\ boots \in 0..MaxBoots

\* The robot stays its user's: whatever refreshes and retries are under way when
\* an Auth for another user comes, and wherever the process ends, the token in
\* memory, the one in the file and every one handed out are of the user whom the
\* last Auth stored one for, or there is none once the file was found broken.  Only between the renaming of the file and the
\* assignment of currentToken the memory is behind.
UserSticks ==
  /\ file = bound
  /\ (\A a \in Actors : call[a].at # "storing") => memory = bound
  /\ \A a \in Actors : call[a].at = "answering" => call[a].token \in {NoToken, bound}
=============================================================================
