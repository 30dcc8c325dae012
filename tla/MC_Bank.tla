------------------------------ MODULE MC_Bank ------------------------------
(* The parts of the two small banks on small instances, one per behaviour: *)
(* the host bank, one client context of it, and the DPA bank.              *)
EXTENDS SmallBank, BankClient, DpaBank

VARIABLE part

MCTypes == {"Amalgamate", "WriteCheck"}
MCDTxns == {<<1, 0>>, <<1, 2>>, <<2, 2>>}

Init == part \in {"bank", "client", "dpa"} /\ BankInit /\ ClientInit /\ DpaInit

Next ==
  /\ UNCHANGED part
  /\ \/ part = "bank" /\ BankNext /\ UNCHANGED <<clientVars, dpaVars>>
     \/ part = "client" /\ ClientNext /\ UNCHANGED <<bankVars, dpaVars>>
     \/ part = "dpa" /\ DpaNext /\ UNCHANGED <<bankVars, clientVars>>

Spec == Init /\ [][Next]_<<part, bankVars, clientVars, dpaVars>>
============================================================================
