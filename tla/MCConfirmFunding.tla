-------------------------- MODULE MCConfirmFunding --------------------------
(* Payments for the model checker.  Each has one checked transfer; it is    *)
(* exact, one unit short, or next to a plain transfer of one unit more.     *)
(* The exact one creates the receiving account.  An exact one has a memo    *)
(* for some of the intents, the others have one for every intent.           *)
EXTENDS ConfirmFunding, TLC

Seqs == INSTANCE SequencesExt

Held0 == Amount + 2         \* what the user and the controlled wallet hold

Balance(index, owner, amount) ==
    [index |-> index, mint |-> usdc, owner |-> owner, amount |-> amount,
     decimals |-> USDC_DECIMALS]

Transfer(type, wallet, amount) ==
    [program |-> "token", type |-> type, mint |-> usdc, authority |-> wallet,
     source |-> get_associated_token_address(wallet),
     destination |-> get_associated_token_address(Controlled),
     amount |-> amount, decimals |-> USDC_DECIMALS]

Memo(i) == [program |-> "memo", memo |-> <<i, 0>>]

Payment(named, wallet, received, transfers, moved) ==
    [keys |-> <<[key |-> wallet, signer |-> TRUE],
                [key |-> get_associated_token_address(wallet), signer |-> FALSE],
                [key |-> get_associated_token_address(Controlled), signer |-> FALSE]>>,
     instructions |-> Seqs!SetToSeq({Memo(i) : i \in named}) \o transfers,
     pre  |-> <<Balance(2, wallet, Held0)>> \o received,
     post |-> <<Balance(2, wallet, Held0 - moved),
                Balance(3, Controlled,
                        moved + (IF received = << >> THEN 0 ELSE Held0))>>]

PaymentsOf(kinds) ==
    [pay \in {pay \in kinds \X (SUBSET Intents \ {{}}) \X Wallets :
                 pay[1] = "exact" \/ pay[2] = Intents} |->
        LET named == pay[2]
            w == pay[3]
            Checked(amount) == Transfer("transferChecked", w, amount)
            Plain == Transfer("transfer", w, 1)
            Existing == <<Balance(3, Controlled, Held0)>>
        IN  CASE pay[1] = "exact" -> Payment(named, w, << >>, <<Checked(Amount)>>, Amount)
              [] pay[1] = "short" ->
                    Payment(named, w, Existing, <<Checked(Amount - 1)>>, Amount - 1)
              [] pay[1] = "extra" ->
                    Payment(named, w, Existing, <<Checked(Amount), Plain>>, Amount + 1)]

ExactOrExtra == PaymentsOf({"exact", "extra"})
ExactOrShort == PaymentsOf({"exact", "short"})

\* Intents, signatures and clients are interchangeable.
Symmetry ==
    Permutations(Intents) \cup Permutations(Sigs) \cup Permutations(Calls)

=============================================================================
