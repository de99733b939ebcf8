------------------------------- MODULE Loaders -------------------------------
(***************************************************************************)
(* The account lists of the instructions (validation/loaders.rs) and the   *)
(* clients that build them (program/instruction_builders, the jup and slim *)
(* clients).  An instruction comes with a bare list of accounts; its       *)
(* loader decides from what it finds in the list which account is which.   *)
(*                                                                         *)
(* There is one market, of the mints base and quote, and a third mint that *)
(* it does not trade.  An address is a tuple; the derived ones (vaults,    *)
(* global accounts) are named for what they are derived from, so only the  *)
(* program that they belong to has put anything there.                     *)
(***************************************************************************)
EXTENDS Naturals, Sequences, FiniteSets

CONSTANTS
    Payer, Owner    \* the wallets of a transaction

VARIABLES
    chain,      \* what is stored in the accounts
    loaded      \* what the loader of the last instruction made of its list

vars == <<chain, loaded>>

Tokens == {"base", "quote"}

Mints == Tokens \cup {"third"}

Other(token) == IF token = "base" THEN "quote" ELSE "base"

Wallets == {Payer, Owner}

\* Addresses.
Wallet(w) == <<"wallet", w>>
Program(p) == <<"program", p>>
Mint(x) == <<"mint", x>>
Global(x) == <<"global", x>>
GlobalVault(x) == <<"global vault", x>>
Vault(x) == <<"vault", x>>
Held(w, x) == <<"held", w, x>>
Market == <<"market">>
NoKey == <<>>

TokenPrograms == {Program("token"), Program("token22")}

SystemProgram == Program("system")

Addresses ==
    {Market, SystemProgram} \cup TokenPrograms
        \cup {Wallet(w) : w \in Wallets}
        \cup {f[x] : x \in Mints, f \in {[x \in Mints |-> Mint(x)], [x \in Mints |-> Global(x)],
                                         [x \in Mints |-> GlobalVault(x)]}}
        \cup {Vault(x) : x \in Tokens}
        \cup {Held(w, x) : w \in Wallets, x \in Mints}

\* chain.program: the token program of a mint; chain.market: the market is
\* initialized; chain.globals: the mints whose global account is; chain.cache:
\* the global accounts that the market remembers.
Chains ==
    [program : [Mints -> TokenPrograms], market : BOOLEAN, globals : SUBSET Mints,
     cache : [Tokens -> {NoKey} \cup {Global(x) : x \in Mints}]]

-----------------------------------------------------------------------------
(* What is at an address. *)

Kind(key) == key[1]

\* The mint of a token account, and the authority over it.
MintOf(key) == key[Len(key)]

IsOfToken(key) == Kind(key) \in {"mint", "global", "global vault", "vault", "held"}

OfToken(key, x) == [key EXCEPT ![Len(key)] = x]

Authority(key) == IF Kind(key) = "held" THEN Wallet(key[2]) ELSE key

Exists(key) ==
    CASE Kind(key) = "global" -> key[2] \in chain.globals
      [] Kind(key) = "global vault" -> key[2] \in chain.globals
      [] Kind(key) = "vault" -> chain.market /\ key[2] \in Tokens
      [] Kind(key) = "wallet" -> FALSE
      [] OTHER -> TRUE

\* The owning program.  A new market has been created for the program before it
\* is initialized.
OwningProgram(key) ==
    CASE Kind(key) \in {"market", "global"} /\ Exists(key) -> Program("manifest")
      [] Kind(key) = "mint" -> chain.program[key[2]]
      [] Kind(key) \in {"held", "vault", "global vault"} /\ Exists(key) ->
            chain.program[MintOf(key)]
      [] Kind(key) = "program" -> Program("loader")
      [] OTHER -> SystemProgram

-----------------------------------------------------------------------------
(* The checks on one account.  A meta is [key, signer, writable].          *)

IsSigner(meta) == meta.signer

IsPayer(meta) == meta.writable /\ meta.signer

IsProgram(meta, program) == meta.key = program

IsTokenProgram(meta) == meta.key \in TokenPrograms

IsEmptyAccount(meta) == ~ Exists(meta.key) /\ OwningProgram(meta.key) = SystemProgram

IsTokenOwned(meta) == OwningProgram(meta.key) \in TokenPrograms

IsMint(meta) == Kind(meta.key) = "mint" /\ IsTokenOwned(meta)

IsTokenAccount(meta, mint) ==
    /\ IsTokenOwned(meta)
    /\ Kind(meta.key) \in {"held", "vault", "global vault"}
    /\ Mint(MintOf(meta.key)) = mint

IsTokenAccountOf(meta, mint, authority) ==
    IsTokenAccount(meta, mint) /\ Authority(meta.key) = authority

IsVault(meta, mint, vault) == meta.key = vault /\ IsTokenAccountOf(meta, mint, vault)

\* ManifestAccountInfo::new: owner and discriminant.
IsManifestOwned(meta) == OwningProgram(meta.key) = Program("manifest")

IsMarket(meta) == IsManifestOwned(meta) /\ Kind(meta.key) = "market" /\ chain.market

IsNewMarket(meta) == IsManifestOwned(meta) /\ Kind(meta.key) = "market" /\ ~ chain.market

IsGlobal(meta) == IsManifestOwned(meta) /\ Kind(meta.key) = "global"

GlobalMint(meta) == Mint(meta.key[2])

\* is_global_address: the global account is where its mint says it is.
IsGlobalOfItsMint(meta) == IsGlobal(meta) /\ meta.key = Global(GlobalMint(meta)[2])

\* verify_market_global: against the remembered address, or the derived one, which
\* is then remembered.
IsMarketGlobal(meta, token) ==
    meta.key = IF chain.cache[token] # NoKey THEN chain.cache[token] ELSE Global(token)

-----------------------------------------------------------------------------
(* Loaders of a list of fixed length: the role of each position, and what  *)
(* the list has to satisfy.                                                *)

Roles ==
    [CreateMarket    |-> <<"payer", "market", "system", "base_mint", "quote_mint", "base_vault",
                           "quote_vault", "token_program", "token_program_22">>,
     ClaimSeat       |-> <<"payer", "market", "system">>,
     Expand          |-> <<"payer", "market", "system">>,
     Deposit         |-> <<"payer", "market", "trader_token", "vault", "token_program", "mint">>,
     Withdraw        |-> <<"payer", "market", "trader_token", "vault", "token_program", "mint">>,
     GlobalCreate    |-> <<"payer", "global", "system", "mint", "global_vault", "token_program">>,
     GlobalAddTrader |-> <<"payer", "global", "system">>,
     GlobalDeposit   |-> <<"payer", "global", "mint", "global_vault", "trader_token",
                           "token_program">>,
     GlobalWithdraw  |-> <<"payer", "global", "mint", "global_vault", "trader_token",
                           "token_program">>,
     GlobalEvict     |-> <<"payer", "global", "mint", "global_vault", "trader_token",
                           "evictee_token", "token_program", "system">>,
     GlobalClean     |-> <<"payer", "market", "system", "global">>]

FixedKinds == DOMAIN Roles

CreateMarketLoads(l) ==
    /\ IsPayer(l[1]) /\ IsNewMarket(l[2]) /\ IsProgram(l[3], SystemProgram)
    /\ IsMint(l[4]) /\ IsMint(l[5])
    /\ IsEmptyAccount(l[6]) /\ l[6].key = Vault(l[4].key[2])
    /\ IsEmptyAccount(l[7]) /\ l[7].key = Vault(l[5].key[2])
    /\ IsTokenProgram(l[8]) /\ IsTokenProgram(l[9])

ClaimSeatLoads(l) == IsSigner(l[1]) /\ IsMarket(l[2]) /\ IsProgram(l[3], SystemProgram)

ExpandLoads(l) == IsPayer(l[1]) /\ IsMarket(l[2]) /\ IsProgram(l[3], SystemProgram)

\* The mint is inferred from the trader's token account.  The mint account at the
\* end is only used by the token program.
FundsLoad(l) ==
    /\ IsSigner(l[1]) /\ IsMarket(l[2])
    /\ \E token \in Tokens :
        /\ IsTokenAccountOf(l[3], Mint(token), l[1].key)
        /\ IsVault(l[4], Mint(token), Vault(token))
    /\ IsTokenProgram(l[5]) /\ IsMint(l[6])

GlobalCreateLoads(l) ==
    /\ IsPayer(l[1]) /\ IsEmptyAccount(l[2]) /\ IsProgram(l[3], SystemProgram)
    /\ IsMint(l[4]) /\ IsEmptyAccount(l[5])
    /\ l[2].key = Global(l[4].key[2])
    /\ IsTokenProgram(l[6])

GlobalAddTraderLoads(l) ==
    IsPayer(l[1]) /\ IsGlobalOfItsMint(l[2]) /\ IsProgram(l[3], SystemProgram)

\* The mint account is not compared with the mint of the global account: that the
\* vault holds it has to do.
GlobalVaultLoads(l) ==
    /\ IsGlobalOfItsMint(l[2]) /\ IsMint(l[3])
    /\ IsVault(l[4], l[3].key, GlobalVault(l[2].key[2]))

GlobalFundsLoad(l) ==
    /\ IsSigner(l[1]) /\ GlobalVaultLoads(l)
    /\ IsTokenAccountOf(l[5], l[3].key, l[1].key)
    /\ IsTokenProgram(l[6])

GlobalEvictLoads(l) ==
    /\ IsPayer(l[1]) /\ GlobalVaultLoads(l)
    /\ IsTokenAccountOf(l[5], l[3].key, l[1].key)
    /\ IsTokenAccount(l[6], l[3].key)
    /\ IsTokenProgram(l[7]) /\ IsProgram(l[8], SystemProgram)

GlobalCleanLoads(l) ==
    /\ IsPayer(l[1]) /\ IsMarket(l[2]) /\ IsProgram(l[3], SystemProgram)
    /\ IsGlobalOfItsMint(l[4])

FixedLoads(kind, l) ==
    /\ Len(l) >= Len(Roles[kind])
    /\ CASE kind = "CreateMarket" -> CreateMarketLoads(l)
         [] kind = "ClaimSeat" -> ClaimSeatLoads(l)
         [] kind = "Expand" -> ExpandLoads(l)
         [] kind \in {"Deposit", "Withdraw"} -> FundsLoad(l)
         [] kind = "GlobalCreate" -> GlobalCreateLoads(l)
         [] kind = "GlobalAddTrader" -> GlobalAddTraderLoads(l)
         [] kind \in {"GlobalDeposit", "GlobalWithdraw"} -> GlobalFundsLoad(l)
         [] kind = "GlobalEvict" -> GlobalEvictLoads(l)
         [] kind = "GlobalClean" -> GlobalCleanLoads(l)

FixedRoles(kind, l) ==
    [role \in {Roles[kind][i] : i \in 1 .. Len(Roles[kind])} |->
        l[CHOOSE i \in 1 .. Len(Roles[kind]) : Roles[kind][i] = role].key]

-----------------------------------------------------------------------------
(* The accounts that make trading against global orders possible.          *)

NoGlobalAccounts == [global |-> NoKey, global_vault |-> NoKey, market_vault |-> NoKey,
                     mint |-> NoKey, program |-> NoKey]

NoGlobals == [token \in Tokens |-> NoGlobalAccounts]

\* What a loader returns: the accounts by role, the global accounts of each side.
Loads(kind, roles, globals) ==
    [ok |-> TRUE, kind |-> kind, roles |-> roles, globals |-> globals]

Rejected(kind) == [ok |-> FALSE, kind |-> kind, roles |-> <<>>, globals |-> NoGlobals]

-----------------------------------------------------------------------------
(* Swap: optional accounts are recognized by what they are.                *)

From(l, i) == SubSeq(l, i, Len(l))

\* Drop the first account if it was taken.
After(l, taken) == IF taken THEN Tail(l) ELSE l

StartsTokenOwned(l) == l # <<>> /\ IsTokenOwned(Head(l))

\* Mutant: a quote token program is only looked for after a base mint.
SwapOptionsAfterMint(l) ==
    LET base  == StartsTokenOwned(l)
        l2    == After(l, base)
        prog  == base /\ l2 # <<>> /\ IsTokenProgram(Head(l2))
        l3    == After(l2, prog)
        quote == StartsTokenOwned(l3)
        l4    == After(l3, quote)
    IN  [base_mint |-> IF base THEN Head(l).key ELSE NoKey,
         program   |-> IF prog THEN Head(l2).key ELSE NoKey,
         mint      |-> IF quote THEN Head(l3).key ELSE NoKey,
         rest      |-> l4]

\* The optional accounts from the one that follows the base token program.  The
\* positions of base mint, quote token program, quote mint and global are fixed
\* by which of them are there.
SwapOptions(l) ==
    LET base  == StartsTokenOwned(l)
        l2    == After(l, base)
        prog  == l2 # <<>> /\ IsTokenProgram(Head(l2))
        l3    == After(l2, prog)
        quote == StartsTokenOwned(l3)
        l4    == After(l3, quote)
    IN  [base_mint |-> IF base THEN Head(l).key ELSE NoKey,
         program   |-> IF prog THEN Head(l2).key ELSE NoKey,
         mint      |-> IF quote THEN Head(l3).key ELSE NoKey,
         rest      |-> l4]

\* A mint that was passed is the market's, and owned by the token program; one of
\* a Token-2022 token has to be passed.
MintMatches(key, token, program) ==
    IF key = NoKey THEN program # Program("token22")
    ELSE key = Mint(token) /\ chain.program[token] = program

\* The side of a global account that was passed, if it may be.
GlobalSide(meta) == {token \in Tokens : GlobalMint(meta) = Mint(token) /\ IsMarketGlobal(meta, token)}

SwapLoaded(l) ==
    LET at      == IF Len(l) >= 2 /\ IsManifestOwned(l[2]) THEN 2 ELSE 3
        options == SwapOptions(From(l, at + 7))
        program == [base  |-> l[at + 6].key,
                    quote |-> IF options.program = NoKey THEN l[at + 6].key ELSE options.program]
        mint    == [base |-> options.base_mint, quote |-> options.mint]
        rest    == options.rest
        \* Blindly included and not initialized: ignored.
        global  == rest # <<>> /\ Exists(Head(rest).key)
        Side    == GlobalSide(Head(rest))
        roles   == [payer |-> l[1].key, owner |-> l[at - 1].key, market |-> l[at].key,
                    trader_base |-> l[at + 2].key, trader_quote |-> l[at + 3].key,
                    base_vault |-> l[at + 4].key, quote_vault |-> l[at + 5].key,
                    base_program |-> program.base, quote_program |-> program.quote,
                    base_mint |-> mint.base, quote_mint |-> mint.quote]
    IN  IF ~ /\ Len(l) >= at + 6
             /\ IsSigner(l[at - 1]) /\ IsMarket(l[at]) /\ IsProgram(l[at + 1], SystemProgram)
             /\ IsTokenAccount(l[at + 2], Mint("base")) /\ IsTokenAccount(l[at + 3], Mint("quote"))
             /\ IsVault(l[at + 4], Mint("base"), Vault("base"))
             /\ IsVault(l[at + 5], Mint("quote"), Vault("quote"))
             /\ IsTokenProgram(l[at + 6])
             /\ \A token \in Tokens : MintMatches(mint[token], token, program[token])
             /\ global => /\ IsGlobal(Head(rest)) /\ Len(rest) >= 2
                          /\ IsVault(rest[2], GlobalMint(Head(rest)), GlobalVault(Head(rest).key[2]))
                          /\ Side # {}
        THEN Rejected("Swap")
        ELSE Loads("Swap", roles,
                [token \in Tokens |->
                    IF global /\ token \in Side
                    THEN [global |-> Head(rest).key, global_vault |-> rest[2].key,
                          market_vault |-> Vault(token), mint |-> mint[token],
                          program |-> program[token]]
                    ELSE NoGlobalAccounts])

-----------------------------------------------------------------------------
(* BatchUpdate: up to two groups of mint, global, global vault, market     *)
(* vault and token program.                                                *)

\* One group: what it adds to the global accounts, and the rest of the list.  A
\* group whose global account is not one (not initialized, say) is ignored with all
\* its accounts.
Group(loading) ==
    LET l     == loading.rest
        sides == IF l = <<>> THEN {} ELSE {token \in Tokens : l[1].key = Mint(token)}
        token == CHOOSE token \in sides : TRUE
    IN  IF l = <<>> \/ ~ loading.ok THEN loading
        ELSE IF ~ IsMint(l[1]) \/ sides = {} \/ Len(l) < 2 THEN [loading EXCEPT !.ok = FALSE]
        ELSE IF ~ IsGlobal(l[2]) THEN [loading EXCEPT !.rest = From(l, 6)]
        ELSE IF ~ /\ Len(l) >= 5
                  /\ IsMarketGlobal(l[2], token)
                  /\ IsVault(l[3], l[1].key, GlobalVault(l[2].key[2]))
                  /\ IsVault(l[4], l[1].key, Vault(token))
                  /\ IsTokenProgram(l[5])
        THEN [loading EXCEPT !.ok = FALSE]
        ELSE [loading EXCEPT !.rest = From(l, 6),
                             !.globals[token] = [global |-> l[2].key, global_vault |-> l[3].key,
                                                 market_vault |-> l[4].key, mint |-> l[1].key,
                                                 program |-> l[5].key]]

BatchUpdateLoaded(l) ==
    LET loading == Group(Group([ok |-> TRUE, rest |-> From(l, 4), globals |-> NoGlobals]))
    IN  IF /\ Len(l) >= 3
           /\ IsSigner(l[1]) /\ IsMarket(l[2]) /\ IsProgram(l[3], SystemProgram)
           /\ loading.ok
        THEN Loads("BatchUpdate", [payer |-> l[1].key, market |-> l[2].key], loading.globals)
        ELSE Rejected("BatchUpdate")

Loaded(kind, l) ==
    CASE kind = "Swap" -> SwapLoaded(l)
      [] kind = "BatchUpdate" -> BatchUpdateLoaded(l)
      [] kind \in FixedKinds ->
            IF FixedLoads(kind, l) THEN Loads(kind, FixedRoles(kind, l), NoGlobals)
                                   ELSE Rejected(kind)

-----------------------------------------------------------------------------
(* The lists that the instruction builders make.                           *)

Sig(key) == [key |-> key, signer |-> TRUE, writable |-> TRUE]

SigReadonly(key) == [key |-> key, signer |-> TRUE, writable |-> FALSE]

Acc(key) == [key |-> key, signer |-> FALSE, writable |-> TRUE]

Optional(included, key) == IF included THEN <<Acc(key)>> ELSE <<>>

CreateMarketList ==
    <<Sig(Wallet(Payer)), Acc(Market), Acc(SystemProgram), Acc(Mint("base")), Acc(Mint("quote")),
      Acc(Vault("base")), Acc(Vault("quote")), Acc(Program("token")), Acc(Program("token22"))>>

ClaimSeatList == <<Sig(Wallet(Payer)), Acc(Market), Acc(SystemProgram)>>

FundsList(token) ==
    <<SigReadonly(Wallet(Payer)), Acc(Market), Acc(Held(Payer, token)), Acc(Vault(token)),
      Acc(chain.program[token]), Acc(Mint(token))>>

GlobalCreateList(mint) ==
    <<Sig(Wallet(Payer)), Acc(Global(mint)), Acc(SystemProgram), Acc(Mint(mint)),
      Acc(GlobalVault(mint)), Acc(chain.program[mint])>>

GlobalAddTraderList(mint) == <<Sig(Wallet(Payer)), Acc(Global(mint)), Acc(SystemProgram)>>

GlobalFundsList(mint) ==
    <<Sig(Wallet(Payer)), Acc(Global(mint)), Acc(Mint(mint)), Acc(GlobalVault(mint)),
      Acc(Held(Payer, mint)), Acc(chain.program[mint])>>

GlobalEvictList(mint) ==
    <<Sig(Wallet(Payer)), Acc(Global(mint)), Acc(Mint(mint)), Acc(GlobalVault(mint)),
      Acc(Held(Payer, mint)), Acc(Held(Owner, mint)), Acc(chain.program[mint]), Acc(SystemProgram)>>

GlobalCleanList(mint) ==
    <<Sig(Wallet(Payer)), Acc(Market), Acc(SystemProgram), Acc(Global(mint))>>

FixedList(kind, mint) ==
    CASE kind = "CreateMarket" -> CreateMarketList
      [] kind \in {"ClaimSeat", "Expand"} -> ClaimSeatList
      [] kind \in {"Deposit", "Withdraw"} -> FundsList(mint)
      [] kind = "GlobalCreate" -> GlobalCreateList(mint)
      [] kind = "GlobalAddTrader" -> GlobalAddTraderList(mint)
      [] kind \in {"GlobalDeposit", "GlobalWithdraw"} -> GlobalFundsList(mint)
      [] kind = "GlobalEvict" -> GlobalEvictList(mint)
      [] kind = "GlobalClean" -> GlobalCleanList(mint)

\* Accounts that every swap needs.
SwapAccounts(owner) ==
    <<Acc(Market), Acc(SystemProgram), Acc(Held(owner, "base")), Acc(Held(owner, "quote")),
      Acc(Vault("base")), Acc(Vault("quote")), Acc(chain.program["base"])>>

\* The optional ones: the mints of Token-2022 tokens, the quote token program if it
\* is another one, the global account of the output.
SwapTail(in, include_global) ==
    Optional(chain.program["base"] = Program("token22"), Mint("base"))
        \o Optional(chain.program["base"] # chain.program["quote"], chain.program["quote"])
        \o Optional(chain.program["quote"] = Program("token22"), Mint("quote"))
        \o Optional(include_global, Global(Other(in)))
        \o Optional(include_global, GlobalVault(Other(in)))

SwapList(in, include_global) ==
    <<SigReadonly(Wallet(Payer))>> \o SwapAccounts(Payer) \o SwapTail(in, include_global)

SwapV2List(in, include_global) ==
    <<SigReadonly(Wallet(Payer)), SigReadonly(Wallet(Owner))>> \o SwapAccounts(Owner)
        \o SwapTail(in, include_global)

\* Jupiter: always everything.
JupSwapList(in) ==
    <<Sig(Wallet(Owner)), Sig(Wallet(Owner))>> \o SwapAccounts(Owner)
        \o <<Acc(Mint("base")), Acc(chain.program["quote"]), Acc(Mint("quote")),
             Acc(Global(Other(in))), Acc(GlobalVault(Other(in)))>>

\* The slim client: the caller says which optional accounts to include.
SlimSwapList(in, options) ==
    <<Sig(Wallet(Payer))>> \o SwapAccounts(Payer)
        \o Optional(options.base_mint, Mint("base"))
        \o Optional(options.quote_program, chain.program["quote"])
        \o Optional(options.quote_mint, Mint("quote"))
        \o Optional(options.global, Global(Other(in)))
        \o Optional(options.global, GlobalVault(Other(in)))

\* What its documentation asks for: the mints of Token-2022 tokens and a different
\* quote token program; a quote mint alone would be taken for the base mint.
SlimOptions ==
    {o \in [base_mint : BOOLEAN, quote_program : BOOLEAN, quote_mint : BOOLEAN, global : BOOLEAN] :
        /\ chain.program["base"] = Program("token22") => o.base_mint
        /\ chain.program["base"] # chain.program["quote"] => o.quote_program
        /\ chain.program["quote"] = Program("token22") => o.quote_mint
        /\ o.quote_mint => o.base_mint \/ o.quote_program}

BatchGroup(token) ==
    <<Acc(Mint(token)), Acc(Global(token)), Acc(GlobalVault(token)), Acc(Vault(token)),
      Acc(chain.program[token])>>

BatchUpdateList(tokens) ==
    <<Sig(Wallet(Payer)), Acc(Market), Acc(SystemProgram)>>
        \o (IF "base" \in tokens THEN BatchGroup("base") ELSE <<>>)
        \o (IF "quote" \in tokens THEN BatchGroup("quote") ELSE <<>>)

\* An instruction as a client builds it: its list, the wallet that trades, and the
\* tokens whose global account it asks for.
Built(kind, list, owner, asked) == [kind |-> kind, list |-> list, owner |-> owner, asked |-> asked]

Instructions ==
    {Built(kind, FixedList(kind, token), Payer, {token}) : kind \in FixedKinds, token \in Tokens}
    \cup UNION {{Built("Swap", SwapList(in, FALSE), Payer, {}),
                 Built("Swap", SwapList(in, TRUE), Payer, {Other(in)}),
                 Built("Swap", SwapV2List(in, FALSE), Owner, {}),
                 Built("Swap", SwapV2List(in, TRUE), Owner, {Other(in)}),
                 Built("Swap", JupSwapList(in), Owner, {Other(in)})} : in \in Tokens}
    \cup {Built("Swap", SlimSwapList(in, o), Payer, IF o.global THEN {Other(in)} ELSE {}) :
                in \in Tokens, o \in SlimOptions}
    \cup {Built("BatchUpdate", BatchUpdateList(tokens), Payer, tokens) : tokens \in SUBSET Tokens}

-----------------------------------------------------------------------------

Nothing == Rejected("none")

Init ==
    /\ chain \in
        {[program |-> [x \in Mints |-> IF x = "third" THEN Program("token") ELSE program[x]],
          market |-> market, globals |-> {"third"}, cache |-> [token \in Tokens |-> NoKey]] :
            market \in BOOLEAN, program \in [Tokens -> TokenPrograms]}
    /\ loaded = Nothing

\* The loader of an instruction gets its list.
Load(kind, list) == loaded' = Loaded(kind, list) /\ UNCHANGED chain

\* The list is what a client built.
LoadBuilt ==
    /\ loaded = Nothing
    /\ \E i \in Instructions : Load(i.kind, i.list)

\* There is a mistake in it: an account is another one or has not signed, two
\* accounts are those of another token, or the list ends too early.
LoadMistaken ==
    /\ loaded = Nothing
    /\ \E i \in Instructions : \E n \in DOMAIN i.list :
        \/ \E key \in Addresses : Load(i.kind, [i.list EXCEPT ![n].key = key])
        \/ Load(i.kind, [i.list EXCEPT ![n].signer = FALSE])
        \/ \E m \in DOMAIN i.list, x \in Mints :
            /\ IsOfToken(i.list[n].key) /\ IsOfToken(i.list[m].key)
            /\ Load(i.kind, [i.list EXCEPT ![n].key = OfToken(@, x), ![m].key = OfToken(@, x)])
        \/ Load(i.kind, SubSeq(i.list, 1, n - 1))

\* verify_market_global remembers the address of a global account that is used.
Remembered ==
    [token \in Tokens |->
        IF chain.cache[token] = NoKey /\ loaded.globals[token].global # NoKey
        THEN Global(token) ELSE chain.cache[token]]

\* process_create_market: the market is initialized and remembers both addresses.
MarketCreated ==
    /\ loaded.kind = "CreateMarket"
    /\ chain' = [chain EXCEPT !.market = TRUE, !.cache = [token \in Tokens |-> Global(token)]]

\* process_global_create: only the derived vault can be created.
GlobalCreated ==
    /\ loaded.kind = "GlobalCreate"
    /\ loaded.roles.global_vault = GlobalVault(MintOf(loaded.roles.mint))
    /\ chain' = [chain EXCEPT !.globals = @ \cup {MintOf(loaded.roles.mint)}]

\* The instruction ends.
Process ==
    /\ loaded # Nothing
    /\ IF loaded.ok /\ loaded.kind \in {"CreateMarket", "GlobalCreate"}
       THEN MarketCreated \/ GlobalCreated
       ELSE chain' = [chain EXCEPT !.cache = Remembered]
    /\ loaded' = Nothing

\* It was loaded, but fails.
Fail == loaded # Nothing /\ loaded' = Nothing /\ UNCHANGED chain

Next == LoadBuilt \/ LoadMistaken \/ Process \/ Fail

Spec == Init /\ [][Next]_vars

=============================================================================
