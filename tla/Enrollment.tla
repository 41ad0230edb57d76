----------------------------- MODULE Enrollment -----------------------------
(***************************************************************************)
(* How a remote worker exchanges a one-time enrollment token for the       *)
(* credential it invents itself.  Each step is one durable change of a     *)
(* file or one call, and the worker may crash between any two.  One        *)
(* process at a time runs in a data directory (lockDataDirectory).         *)
(***************************************************************************)
EXTENDS Naturals

CONSTANTS
  None,            \* an absent file, credential or token
  Old,             \* the credential an earlier release wrote (factory_runner_)
  MaxTokens,       \* bound on the enrollments an operator creates
  MaxCredentials,  \* bound on the credentials the worker invents
  MaxCrashes       \* bound on crashes of the worker

Token == 1 .. MaxTokens
New == 1 .. MaxCredentials
Credential == New \union {Old}

VARIABLES
  made, used, expired,  \* rows of worker_enrollments, used_at set, past expires_at
  stored,      \* remote_worker_credentials of the worker
  configured,  \* enrollment_token of its configuration
  file,        \* the credential files of its data directory
  held,        \* client.credential
  trying,      \* the credential enroll proposes
  step,        \* where the worker is
  answer,      \* the exchange: none, sent, or its answer
  late,        \* exchanges nobody waits for
  invented,    \* credentials drawn
  crashes

serverVars == <<made, used, expired, stored>>
workerVars == <<configured, held, trying, step, answer, invented>>
vars == <<serverVars, workerVars, file, late, crashes>>

Files == {"final", "pending", "oldFinal", "oldPending"}
Steps == {"down", "linkFinal", "dropFinal", "linkPending", "dropPending", "load",
          "enroll", "exchange", "regenerate", "create", "save", "clear", "enrolled"}
Answers == {"accepted", "regenerate", "unauthorized"}

EnrollmentConstants ==
  /\ MaxTokens \in Nat \ {0} /\ MaxCredentials \in Nat \ {0} /\ MaxCrashes \in Nat
  /\ None # Old /\ {None, Old} \cap Nat = {}

TypeOK ==
  /\ made \subseteq Token /\ used \subseteq made /\ expired \subseteq made
  /\ stored \in Credential \union {None} /\ (stored = None <=> used = {})
  /\ configured \in made \union {None}
  /\ file \in [Files -> Credential \union {None}]
  /\ held \in Credential \union {None} /\ trying \in Credential \union {None}
  /\ held # None => held = file["final"]
  /\ step \in Steps /\ answer \in Answers \union {"none", "sent"}
  /\ answer # "none" => step = "exchange" /\ configured # None /\ trying # None
  /\ late \subseteq Token \X Credential
  /\ invented \in 0 .. MaxCredentials /\ crashes \in 0 .. MaxCrashes

\* A new worker, or one whose earlier release left a credential file under the
\* old name: a pending one, which the server may know, or a final one.
Init ==
  /\ made = {1} /\ expired = {} /\ configured = 1
  /\ used \in {{}, {1}}
  /\ file \in [Files -> {Old, None}]
  /\ file["final"] = None /\ file["pending"] = None
  /\ stored = IF used = {} THEN None ELSE Old
  /\ used # {} => \E f \in Files : file[f] = Old
  /\ file["oldFinal"] = Old => used # {}
  /\ held = None /\ trying = None /\ step = "down" /\ answer = "none"
  /\ late = {} /\ invented = 0 /\ crashes = 0

-----------------------------------------------------------------------------
(* The worker.                                                              *)

Go(from, to) == step = from /\ step' = to

Start ==
  /\ Go("down", "linkFinal")
  /\ UNCHANGED <<serverVars, configured, held, trying, answer, invented, file, late, crashes>>

\* adoptLegacyWorkerCredentialFile: link under the new name, then unlink the
\* old one; an existing new name wins.
Adopt(old, new, link, drop, after) ==
  \/ /\ Go(link, after) /\ (file[new] # None \/ file[old] = None)
     /\ UNCHANGED file
  \/ /\ Go(link, drop) /\ file[new] = None /\ file[old] # None
     /\ file' = [file EXCEPT ![new] = file[old]]
  \/ /\ Go(drop, after) /\ file' = [file EXCEPT ![old] = None]

AdoptLegacy ==
  /\ \/ Adopt("oldFinal", "final", "linkFinal", "dropFinal", "linkPending")
     \/ Adopt("oldPending", "pending", "linkPending", "dropPending", "load")
  /\ UNCHANGED <<serverVars, configured, held, trying, answer, invented, late, crashes>>

LoadCredential ==
  /\ Go("load", "enroll") /\ held' = file["final"]
  /\ UNCHANGED <<serverVars, configured, trying, answer, invented, file, late, crashes>>

\* enroll, up to the exchange.
RemoveStale ==
  /\ Go("enroll", "enrolled") /\ held # None
  /\ file' = [file EXCEPT !["pending"] = None]
  /\ UNCHANGED <<serverVars, configured, held, trying, answer, invented, late, crashes>>

LoadPending ==
  /\ step = "enroll" /\ held = None
  /\ trying' = file["pending"]
  /\ IF configured = None THEN step' = "down" /\ UNCHANGED answer
     ELSE IF file["pending"] = None THEN step' = "create" /\ UNCHANGED answer
     ELSE step' = "exchange" /\ answer' = "sent"
  /\ UNCHANGED <<serverVars, configured, held, invented, file, late, crashes>>

\* Mutant: the credential is proposed before it is written.
CreatePendingUnsaved ==
  /\ Go("create", "exchange") /\ invented < MaxCredentials
  /\ invented' = invented + 1 /\ trying' = invented' /\ answer' = "sent"
  /\ UNCHANGED <<serverVars, configured, held, file, late, crashes>>

CreatePending ==
  /\ Go("create", "exchange") /\ invented < MaxCredentials
  /\ invented' = invented + 1 /\ trying' = invented'
  /\ file' = [file EXCEPT !["pending"] = trying'] /\ answer' = "sent"
  /\ UNCHANGED <<serverVars, configured, held, late, crashes>>

\* The copy of an exchange the worker stops waiting for.
Copies == IF answer = "sent" THEN {<<configured, trying>>} ELSE {}

\* A transport error or a 5xx answer: Run waits and enrolls again.
Timeout ==
  /\ Go("exchange", "enroll") /\ answer' = "none"
  /\ late' \in {late, late \union Copies}
  /\ UNCHANGED <<serverVars, configured, held, trying, invented, file, crashes>>

Receive ==
  /\ step = "exchange" /\ answer \in Answers /\ answer' = "none"
  /\ step' = CASE answer = "accepted" -> "save"
               [] answer = "regenerate" -> "regenerate"
               [] answer = "unauthorized" -> "down"
  /\ UNCHANGED <<serverVars, configured, held, trying, invented, file, late, crashes>>

RemoveLegacyPending ==
  /\ Go("regenerate", "create") /\ file' = [file EXCEPT !["pending"] = None]
  /\ UNCHANGED <<serverVars, configured, held, trying, answer, invented, late, crashes>>

SaveCredential ==
  /\ Go("save", "clear")
  /\ file' = [file EXCEPT !["final"] = trying] /\ held' = trying
  /\ UNCHANGED <<serverVars, configured, trying, answer, invented, late, crashes>>

RemovePending ==
  /\ Go("clear", "enrolled") /\ file' = [file EXCEPT !["pending"] = None]
  /\ UNCHANGED <<serverVars, configured, held, trying, answer, invented, late, crashes>>

Crash ==
  /\ crashes < MaxCrashes /\ crashes' = crashes + 1
  /\ step # "down" /\ step' = "down"
  /\ late' \in {late, late \union Copies} /\ answer' = "none"
  /\ held' = None /\ trying' = None
  /\ UNCHANGED <<serverVars, configured, invented, file>>

-----------------------------------------------------------------------------
(* The server and its operator.                                             *)

Accept(t, c) == used' = used \union {t} /\ stored' = c

\* ExchangeWorkerEnrollment: a used token answers its own credential again,
\* however old it is.  Mutant: the expiry is checked first.
ExchangeInTime(t, c, reply) ==
  CASE t \in expired -> reply = "unauthorized" /\ UNCHANGED <<used, stored>>
    [] t \in used \ expired -> /\ reply = IF stored = c THEN "accepted" ELSE "unauthorized"
                               /\ UNCHANGED <<used, stored>>
    [] t \notin used \union expired /\ c = Old -> reply = "regenerate" /\ UNCHANGED <<used, stored>>
    [] OTHER -> reply = "accepted" /\ Accept(t, c)
Exchange(t, c, reply) ==
  CASE t \in used -> /\ reply = IF stored = c THEN "accepted" ELSE "unauthorized"
                     /\ UNCHANGED <<used, stored>>
    [] t \notin used /\ c = Old -> reply = "regenerate" /\ UNCHANGED <<used, stored>>
    [] t \notin used /\ c # Old /\ t \in expired -> reply = "unauthorized" /\ UNCHANGED <<used, stored>>
    [] OTHER -> reply = "accepted" /\ Accept(t, c)

ExchangeAnswered ==
  /\ answer = "sent"
  /\ \E reply \in Answers : Exchange(configured, trying, reply) /\ answer' = reply
  /\ UNCHANGED <<made, expired, configured, held, trying, step, invented, file, late, crashes>>

ExchangeLate ==
  /\ \E copy \in late :
       /\ late' = late \ {copy}
       /\ \E reply \in Answers : Exchange(copy[1], copy[2], reply)
  /\ UNCHANGED <<made, expired, workerVars, file, crashes>>

CreateWorkerEnrollment ==
  /\ \E t \in Token \ made : made' = made \union {t}
  /\ UNCHANGED <<used, expired, stored, workerVars, file, late, crashes>>

Expire ==
  /\ \E t \in made \ expired : expired' = expired \union {t}
  /\ UNCHANGED <<made, used, stored, workerVars, file, late, crashes>>

\* The configuration is read when the worker starts; its token is needed until
\* the credential has been saved.
Configure ==
  /\ step = "down"
  /\ configured' \in made \union (IF file["final"] # None THEN {None} ELSE {})
  /\ UNCHANGED <<serverVars, held, trying, step, answer, invented, file, late, crashes>>

Local == \/ Start \/ AdoptLegacy \/ LoadCredential \/ RemoveStale \/ LoadPending \/ CreatePending
         \/ RemoveLegacyPending \/ SaveCredential \/ RemovePending

Next == \/ Local \/ Timeout \/ Receive \/ Crash
        \/ ExchangeAnswered \/ ExchangeLate \/ CreateWorkerEnrollment \/ Expire \/ Configure

Spec == Init /\ [][Next]_vars

-----------------------------------------------------------------------------
\* A credential the server accepted is on the worker's disk, whenever it
\* crashed and whichever answers were lost, and the worker never runs with one
\* the server does not know (enroll saves it under its final name after the
\* answer and before it removes the pending one).
CredentialSafe ==
  /\ stored \in New => stored \in {file["final"], file["pending"]}
  /\ file["final"] # None => file["final"] = stored

\* A worker that used its token ends with the credential saved, even when the
\* token expires while it retries, unless its operator configures another one.
UsedTokenEnrolls ==
  []<>(stored \in New /\ configured \in used => file["final"] = stored)
=============================================================================
