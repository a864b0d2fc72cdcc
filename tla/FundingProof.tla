---------------------------- MODULE FundingProof ----------------------------
(***************************************************************************)
(* What confirm_funding accepts as proof of a payment                      *)
(* (bins/solfrontier-mcp/src/funding.rs), as pure operators: the answer of *)
(* getTransaction(jsonParsed) is reduced to the parts that matter and      *)
(* compared with the funding row.                                          *)
(*                                                                         *)
(* An answer is [slot, ok, keys, instructions, pre, post]: account keys    *)
(* that did or did not sign, the outer instructions, and the token         *)
(* balances before and after, each of which names its account by index.    *)
(***************************************************************************)
EXTENDS Naturals, Integers, Sequences, Null
LOCAL INSTANCE Functions

CONSTANTS
    Amount,         \* amount_raw of every intent
    Controlled      \* the controlled wallet

ASSUME AmountAssumption == Amount \in Nat
ASSUME CodesAssumption ==
    NULL \notin {"on_chain_failure", "memo_mismatch", "funder_not_signer",
                 "source_balance_missing", "source_delta_mismatch",
                 "receiving_balance_missing", "receiving_delta_mismatch"}

usdc == "usdc"
USDC_DECIMALS == 6

get_associated_token_address(wallet) == <<wallet, usdc>>

-----------------------------------------------------------------------------
(* Reading the answer *)

parse_account_keys(answer) ==
    {answer.keys[k].key : k \in {k \in DOMAIN answer.keys : answer.keys[k].signer}}

\* Memos, and the transfers whose instruction names the mint.  A plain
\* transfer moves tokens too; it is passed over, as is any other program.
parse_outer_instructions(answer) ==
    LET IsMemo(ix)    == ix.program = "memo"
        IsChecked(ix) == ix.program = "token" /\ ix.type = "transferChecked"
    IN  [memos     |-> {ix.memo : ix \in {ix \in Range(answer.instructions) : IsMemo(ix)}},
         transfers |-> SelectSeq(answer.instructions, IsChecked)]

\* The accounts in place of their indices.
parse_token_balances(answer, balances) ==
    [b \in DOMAIN balances |->
        [account  |-> answer.keys[balances[b].index].key,
         mint     |-> balances[b].mint,
         owner    |-> balances[b].owner,
         amount   |-> balances[b].amount,
         decimals |-> balances[b].decimals]]

\* NULL if the answer cannot be decoded: an index points to no account.
parse_json_parsed_transaction(answer) ==
    IF \E b \in Range(answer.pre \o answer.post) : b.index \notin DOMAIN answer.keys
    THEN NULL
    ELSE [slot      |-> answer.slot,
          succeeded |-> answer.ok,
          signers   |-> parse_account_keys(answer),
          memos     |-> parse_outer_instructions(answer).memos,
          transfers |-> parse_outer_instructions(answer).transfers,
          pre       |-> parse_token_balances(answer, answer.pre),
          post      |-> parse_token_balances(answer, answer.post)]

-----------------------------------------------------------------------------
(* Comparing it with the row: [id, hash, wallet, user_ata, controlled_ata,  *)
(* amount].  A check yields the code of its error, or NULL.                 *)

Unless(holds, code) == IF holds THEN NULL ELSE code

\* The element of a sequence at the first of some indices, NULL if there is
\* none.
First(seq, some) ==
    IF some = {} THEN NULL ELSE seq[CHOOSE k \in some : \A j \in some : k <= j]

FirstError(checks) == First(checks, {k \in DOMAIN checks : checks[k] # NULL})

find_balance(balances, account) ==
    First(balances, {b \in DOMAIN balances : balances[b].account = account})

\* A balance that is not there is the business of another check.
validate_balance_identity(balance, owner, code) ==
    IF balance = NULL THEN NULL
    ELSE FirstError(<<Unless(balance.mint = usdc, "wrong_mint"),
                      Unless(balance.decimals = USDC_DECIMALS, "token_decimals_mismatch"),
                      Unless(balance.owner = owner, code)>>)

validate_stored_atas(intent) ==
    Unless(/\ intent.user_ata = get_associated_token_address(intent.wallet)
           /\ intent.controlled_ata = get_associated_token_address(Controlled),
           "stored_ata_mismatch")

diagnose_transfer_mismatch(transfers, intent) ==
    IF transfers = << >> THEN "transfer_checked_missing"
    ELSE LET transfer == Head(transfers)
         IN  FirstError(
               <<Unless(transfer.mint = usdc, "wrong_mint"),
                 Unless(transfer.source = intent.user_ata, "source_ata_mismatch"),
                 Unless(transfer.destination = intent.controlled_ata, "receiving_ata_mismatch"),
                 Unless(transfer.authority = intent.wallet, "transfer_authority_mismatch"),
                 Unless(transfer.amount = intent.amount, "transfer_amount_mismatch"),
                 Unless(transfer.decimals = USDC_DECIMALS, "token_decimals_mismatch"),
                 "transfer_checked_missing">>)

IsTheTransfer(transfer, intent) ==
    /\ transfer.source = intent.user_ata
    /\ transfer.destination = intent.controlled_ata
    /\ transfer.mint = usdc
    /\ transfer.authority = intent.wallet
    /\ transfer.amount = intent.amount
    /\ transfer.decimals = USDC_DECIMALS

AmountOf(balance) == IF balance = NULL THEN 0 ELSE balance.amount

\* A token account that did not exist before had nothing in it, which only
\* the receiving one may be.
verify_funding_transaction(tx, intent) ==
    LET sourcePre  == find_balance(tx.pre, intent.user_ata)
        sourcePost == find_balance(tx.post, intent.user_ata)
        into       == find_balance(tx.pre, intent.controlled_ata)
        intoPost   == find_balance(tx.post, intent.controlled_ata)
        Rose(from, to) == AmountOf(to) - AmountOf(from) = intent.amount
    IN  FirstError(
          <<Unless(tx.succeeded, "on_chain_failure"),
            Unless(<<intent.id, intent.hash>> \in tx.memos, "memo_mismatch"),
            Unless(intent.wallet \in tx.signers, "funder_not_signer"),
            validate_stored_atas(intent),
            IF \E t \in Range(tx.transfers) : IsTheTransfer(t, intent)
            THEN NULL ELSE diagnose_transfer_mismatch(tx.transfers, intent),
            Unless(NULL \notin {sourcePre, sourcePost}, "source_balance_missing"),
            validate_balance_identity(sourcePre, intent.wallet, "source_owner_mismatch"),
            validate_balance_identity(sourcePost, intent.wallet, "source_owner_mismatch"),
            Unless(Rose(sourcePost, sourcePre), "source_delta_mismatch"),
            Unless(intoPost # NULL, "receiving_balance_missing"),
            validate_balance_identity(into, Controlled, "receiving_owner_mismatch"),
            validate_balance_identity(intoPost, Controlled, "receiving_owner_mismatch"),
            Unless(Rose(into, intoPost), "receiving_delta_mismatch")>>)

=============================================================================
