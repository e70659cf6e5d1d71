------------------------------ MODULE Session ------------------------------
(***************************************************************************)
(* A visitor from the offered key to the closed TUI: authencesn.py, which  *)
(* sshd runs to turn the key into the arguments of the TUI, and then Tui.  *)
(* sshd and PAM are external; the script runs once per login.              *)
(***************************************************************************)
EXTENDS Tui

CONSTANTS
  Key,           \* fingerprint of the key that is offered
  Urls,          \* what SSHNACK_INTERNAL_URL or SSHNACK_SERVER_URL may lead to
  MAX_ATTEMPTS

ASSUME SessionAssumption ==
  /\ Key \in Fingerprints /\ MAX_ATTEMPTS \in Nat \ {0}
  /\ Urls \subseteq {"internal", "public", "none"}

VARIABLES
  url,      \* lookup_url: the internal port, the public one, or not set
  gate,     \* "ask", "wait" (in requests.post), "print", "done"
  attempt,
  reply,    \* the user_id that the server answers to this attempt, 0 before
  late,     \* lookups that timed out and have not been carried out
  cmd       \* the number behind --user, 0 for an empty cmd

gvars == <<url, gate, attempt, reply, late, cmd>>
svars == <<vars, gvars>>

SInit ==
  /\ Init
  /\ url \in Urls /\ gate = (IF url = "none" THEN "print" ELSE "ask")
  /\ attempt = 0 /\ reply = 0 /\ late = 0 /\ cmd = 0

\* requests.post: the lookup is on its way.
Ask ==
  /\ gate = "ask" /\ gate' = "wait" /\ attempt' = attempt + 1 /\ reply' = 0
  /\ UNCHANGED <<vars, url, late, cmd>>

\* users_lookup as Services commits it.  Only the internal port routes it.
Commit ==
  /\ url = "internal" /\ disk.seq + 1 \in UserIds
  /\ disk' = Upsert(disk, Key) /\ moved' = TRUE
  /\ UNCHANGED <<shelf, issued, pressed, others, wiped, pc, after, user_id, app, target>>

Identify ==
  /\ gate = "wait" /\ reply = 0
  /\ Commit /\ reply' = disk'.owner[Key]
  /\ UNCHANGED <<url, gate, attempt, late, cmd>>

IdentifyLate ==
  /\ late > 0 /\ late' = late - 1 /\ Commit
  /\ UNCHANGED <<url, gate, attempt, reply, cmd>>

\* Another visitor's key is looked up.  (A bound: only
\* before the login; after it, one more key changes nothing that the TUI reads.)
Visitor ==
  /\ pc = "off" /\ others < MaxOthers /\ others' = others + 1
  /\ disk.seq + 1 \in UserIds
  /\ \E f \in Fingerprints \ {Key} : disk' = Upsert(disk, f)
  /\ moved' = TRUE
  /\ UNCHANGED <<shelf, issued, pressed, wiped, pc, after, user_id, app, target, gvars>>

Resolved ==
  /\ gate = "wait" /\ reply # 0
  /\ cmd' = reply /\ gate' = "print"
  /\ UNCHANGED <<vars, url, attempt, reply, late>>

\* Mutant: tried again for as long as it takes.
AttemptFailsForever ==
  /\ gate = "wait" /\ gate' = "ask" /\ attempt' = 0 /\ reply' = 0
  /\ late' = 0
  /\ UNCHANGED <<vars, url, cmd>>

\* A refusal, an error of the server, no connection, or five seconds over: the
\* answer may be lost, and the lookup may still be carried out.
AttemptFails ==
  /\ gate = "wait"
  /\ gate' = (IF attempt < MAX_ATTEMPTS THEN "ask" ELSE "print")
  /\ late' \in IF url = "internal" /\ reply = 0 THEN {late, late + 1} ELSE {late}
  /\ reply' = 0
  /\ UNCHANGED <<vars, url, attempt, cmd>>

\* The line for sshd is printed, the login accepted, and the TUI started.
Login ==
  /\ gate = "print" /\ gate' = "done" /\ main(cmd)
  /\ attempt' = 0 /\ reply' = 0   \* locals of the script, which ends here
  /\ UNCHANGED <<url, late, cmd>>

Gate == Ask \/ Resolved \/ AttemptFails \/ Login

Next ==
  \/ Gate \/ Identify \/ IdentifyLate \/ Visitor
  \/ Running /\ UNCHANGED <<url, gate, attempt, reply, cmd>>
             /\ late' = IF wiped' = wiped THEN late ELSE 0

Spec == SInit /\ [][Next]_svars

\* The script and the TUI keep running.  Nothing is assumed of the server.
FairSpec == Spec /\ WF_svars(Gate) /\ WF_svars(Returns /\ UNCHANGED gvars)

-----------------------------------------------------------------------------
\* A session that the gate started with a user acts as the account of its key,
\* whatever SSHNACK_USER_ID says, and no lookup, repeated, late or another
\* visitor's, gives the key another account, as long as the database lives.
GateIdentity ==
  pc # "off" /\ cmd # 0 /\ ~wiped => user_id = cmd /\ disk.owner[Key] = cmd

\* Any key gets in, also when the server does not answer: the screen comes.
LoginCompletes == <>(pc = "key")

\* readme.md: the key is the identity of a session.  (Not so: when the lookup
\* fails the session acts as the default user, whose account belongs to the key
\* that was the 67th to come; here, the second.)
OwnAccount ==
  pc # "off" => \A f \in Fingerprints \ {Key} : disk.owner[f] # user_id
=============================================================================
