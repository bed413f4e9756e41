---------------------------- MODULE CountingSema ----------------------------
(***************************************************************************)
(* What semaphore.c promises: a counting semaphore whose tokens go to      *)
(* waiting threads in the order they came, and which a thread that had to  *)
(* wait leaves only with a token handed to it.                             *)
(***************************************************************************)
EXTENDS Naturals, Sequences

CONSTANTS Client, InitCount

VARIABLES
  tokens,       \* tokens nobody has
  queue,        \* threads that wait, in order
  granted       \* threads handed a token that have not yet returned

svars == <<tokens, queue, granted>>

SInit == tokens = InitCount /\ queue = <<>> /\ granted = {}

Take ==
  /\ tokens > 0
  /\ tokens' = tokens - 1
  /\ UNCHANGED <<queue, granted>>

Enqueue(t) ==
  /\ tokens = 0
  /\ t \notin granted
  /\ queue' = Append(queue, t)
  /\ UNCHANGED <<tokens, granted>>

Post ==
  /\ queue = <<>>
  /\ tokens' = tokens + 1
  /\ UNCHANGED <<queue, granted>>

HandOver ==
  /\ queue # <<>>
  /\ granted' = granted \cup {Head(queue)}
  /\ queue' = Tail(queue)
  /\ UNCHANGED tokens

Return(t) ==
  /\ t \in granted
  /\ granted' = granted \ {t}
  /\ UNCHANGED <<tokens, queue>>

SNext ==
  \/ Take
  \/ Post
  \/ HandOver
  \/ \E t \in Client : Enqueue(t) \/ Return(t)

SSpec == SInit /\ [][SNext]_svars
=============================================================================
