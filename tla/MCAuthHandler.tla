--------------------------- MODULE MCAuthHandler ---------------------------
(* Two drivers of one group, the first with a card, and the operator's       *)
(* master pass.                                                              *)
EXTENDS AuthHandler

CONSTANTS t1, t2, mp

MCCards == {t1}
MCParentOf == [t \in Tokens |-> IF t = mp THEN "master" ELSE "group"]
MCResults == {<<"Accepted">>, <<"Elsewhere", "Accepted">>, <<"Invalid">>}
MCWithdrawals == {[evse |-> None, token |-> t1], [evse |-> 1, token |-> None]}
=============================================================================
