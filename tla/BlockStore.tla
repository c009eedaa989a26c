----------------------------- MODULE BlockStore -----------------------------
(***************************************************************************)
(* What pstorage promises its clients: a memory of words that commands     *)
(* change one after another, each as if at once and only in its own words. *)
(* The command at the head of the queue has taken effect and is reported   *)
(* later; a failure or a loss of power may spoil the pages of that command *)
(* and nothing else.                                                       *)
(***************************************************************************)
EXTENDS Integers, Sequences

CONSTANTS Words,            \* the word addresses of the data pages
          Value,            \* the contents a word can have
          Span(_),          \* the words a command may change
          Touched(_),       \* the words of the pages a command has to erase
          Result(_, _, _)   \* the contents of a word after a command

VARIABLES mem,      \* the contents of the words, wherever they are kept
          owned,    \* the words registered by some client
          queue,    \* the commands accepted and not yet reported
          failed    \* the head command was reported as failed: the end

vars == <<mem, owned, queue, failed>>

Init == mem \in [Words -> Value] /\ owned = {} /\ queue = <<>> /\ ~failed

Effect(q) == IF q = <<>> THEN mem
             ELSE [a \in Words |-> IF a \in Span(q[1]) THEN Result(q[1], a, mem[a])
                                                       ELSE mem[a]]

\* q is queue, perhaps with a command more.
Grown(q) == \/ q = queue
            \/ q # <<>> /\ SubSeq(q, 1, Len(q) - 1) = queue

KeepsBut(lost) == \A a \in owned \ lost : mem'[a] = mem[a]

\* New words come with what the flash holds; the words already owned keep theirs.
Register == owned \subseteq owned' /\ KeepsBut({}) /\ UNCHANGED <<queue, failed>>

Submit == /\ queue' # queue /\ Grown(queue')
          /\ mem' = IF queue = <<>> THEN Effect(queue') ELSE mem
          /\ UNCHANGED <<owned, failed>>

\* The client may answer the report with a command more.
Report == /\ ~failed /\ queue # <<>>
          /\ Grown(<<queue[1]>> \o queue')
          /\ mem' = Effect(queue')
          /\ UNCHANGED <<owned, failed>>

Fail == /\ ~failed /\ failed'
        /\ queue' # <<>>
        /\ KeepsBut(Touched(queue'[1]))
        /\ UNCHANGED owned

PowerLoss == /\ KeepsBut(IF queue = <<>> THEN {} ELSE Touched(queue[1]))
             /\ queue' = <<>> /\ ~failed'
             /\ UNCHANGED owned

Next == Register \/ Submit \/ Report \/ Fail \/ PowerLoss

Spec == Init /\ [][Next]_vars
=============================================================================
