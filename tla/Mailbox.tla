------------------------------ MODULE Mailbox -------------------------------
(***************************************************************************)
(* What posting a message promises: a message that was accepted is handled  *)
(* once, after those accepted before it.  The message being handled keeps   *)
(* its place in the box until its handler has returned.                     *)
(***************************************************************************)
EXTENDS Integers, Sequences

CONSTANTS Places, Letters

VARIABLES pending, taken, powered

mailVars == <<pending, taken, powered>>

MailInit == pending = <<>> /\ taken = <<>> /\ ~powered

Post(m) ==
    /\ powered
    /\ pending' = IF Len(pending) + Len(taken) < Places
                    THEN Append(pending, m) ELSE pending
    /\ UNCHANGED <<taken, powered>>

Take ==
    /\ taken = <<>> /\ pending # <<>>
    /\ taken' = <<Head(pending)>> /\ pending' = Tail(pending) /\ UNCHANGED powered

Free == taken # <<>> /\ taken' = <<>> /\ UNCHANGED <<pending, powered>>

\* Nothing survives but what is stored.
PowerLoss == pending' = <<>> /\ taken' = <<>> /\ powered' = FALSE

PowerUp == ~powered /\ powered' = TRUE /\ UNCHANGED <<pending, taken>>

MailNext == Take \/ Free \/ PowerLoss \/ PowerUp \/ \E m \in Letters : Post(m)

MailSpec == MailInit /\ [][MailNext]_mailVars

\* The box is emptied as long as there is power.
MailFair == WF_mailVars(Take) /\ WF_mailVars(Free)
=============================================================================
