------------------------------ MODULE Settings ------------------------------
(***************************************************************************)
(* load_config of server/src/server.c: six settings from their defaults,   *)
(* the environment and the command line, in this order.                    *)
(***************************************************************************)
EXTENDS Integers, Sequences, FiniteSetsExt, SequencesExt

CONSTANTS Words,    \* what argv and the environment may hold
          NumberOf  \* atoi of the words that are numbers (others give 0)

Ports    == {"--port", "--internal-port"}
Counts   == {"--num-workers", "--backlog"}
TextFlags == {"--admin-token", "--db"}
Flags    == Ports \cup Counts \cup TextFlags

Unset == "(unset)"   \* a variable that getenv does not find

Default == [f \in Flags |->
  CASE f = "--port" -> "8080" [] f = "--internal-port" -> "8081" [] f = "--num-workers" -> "4"
    [] f = "--backlog" -> "10" [] f = "--admin-token" -> "admin" [] f = "--db" -> "data/sshnack.db"]

atoi(w) == IF w \in DOMAIN NumberOf THEN NumberOf[w] ELSE 0

\* Whether w is taken for a value of f: texts always, also the empty one.
Valid(f, w) ==
  CASE f \in Ports -> atoi(w) > 0 /\ atoi(w) <= 65535
    [] f \in Counts -> atoi(w) > 0
    [] OTHER -> TRUE

\* The six blocks that read the environment.
from_env(env) ==
  [f \in Flags |-> IF env[f] # Unset /\ Valid(f, env[f]) THEN env[f] ELSE Default[f]]

\* Mutant: the environment is read after the command line.
load_config_swapped(env, argv) ==
  LET step(cfg, i) ==
        LET f == argv[i] IN
        IF f \in Flags /\ Valid(f, argv[i + 1]) THEN [cfg EXCEPT ![f] = argv[i + 1]] ELSE cfg
      cli == FoldLeft(step, Default, [i \in 1..(Len(argv) - 1) |-> i])
  IN  [f \in Flags |-> IF env[f] # Unset /\ Valid(f, env[f]) THEN env[f] ELSE cli[f]]

\* The loop over the command line, which looks at the value of a flag as if it
\* might be a flag as well.  (argv[0] is left out.)
load_config(env, argv) ==
  LET step(cfg, i) ==
        LET f == argv[i] IN
        IF f \in Flags /\ Valid(f, argv[i + 1]) THEN [cfg EXCEPT ![f] = argv[i + 1]] ELSE cfg
  IN  FoldLeft(step, from_env(env), [i \in 1..(Len(argv) - 1) |-> i])

-----------------------------------------------------------------------------
\* A valid value behind a flag beats the environment, the last one beats the
\* others; a valid value of the environment beats the default; and what is not
\* valid changes nothing.
Precedence(env, argv) ==
  \A f \in Flags :
    LET given == {i \in 1..(Len(argv) - 1) : argv[i] = f /\ Valid(f, argv[i + 1])}
        value == load_config(env, argv)[f]
    IN  /\ given # {} => value = argv[Max(given) + 1]
        /\ given = {} /\ env[f] # Unset /\ Valid(f, env[f]) => value = env[f]
        /\ given = {} /\ (env[f] = Unset \/ ~Valid(f, env[f])) => value = Default[f]
=============================================================================
