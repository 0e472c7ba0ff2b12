----------------------------- MODULE MCIap2Link -----------------------------
\* Small instances of the iAP2 link for TLC.
EXTENDS Iap2LinkProps

NoFault       == {{}}
\* Every pair of faults, and everything at once but receptions without a byte,
\* whose stale packets multiply the states.
EveryFault    == {{f, g} : f, g \in FaultKinds}
                 \cup {{}, FaultKinds \ {"empty"},
                       FaultKinds \ {"mismatch", "corrupt", "reset", "empty"}}
TransmitFault == {{}, {"txfail"}}
ReceiveFault  == {{"rxfail"}}
ResetFault    == {{"reset"}}
LossFault     == {{"loss"}}

\* One request of each treatment: answered by a response, acknowledged and
\* followed by another, acknowledged and meant to be followed by a request of
\* the accessory's own.
SomeRequests == {"REQ_AUTH", "REQ_AUTH_CHA_RSP", "REQ_ID_ACCEPTED"}
=============================================================================
