-------------------------- MODULE LoaderProperties --------------------------
(***************************************************************************)
(* What the account lists of the clients and the loaders of the program    *)
(* owe each other.                                                         *)
(***************************************************************************)
EXTENDS Loaders

\* What an instruction is for is there: no client asks for anything else.
Ready(i) ==
    CASE i.kind = "CreateMarket" -> ~ chain.market
      [] i.kind = "GlobalCreate" -> i.asked \cap chain.globals = {}
      [] i.kind \in {"GlobalAddTrader", "GlobalDeposit", "GlobalWithdraw", "GlobalEvict"} ->
            i.asked \subseteq chain.globals
      [] i.kind = "GlobalClean" -> chain.market /\ i.asked \subseteq chain.globals
      [] OTHER -> chain.market

\* The accounts of a swap by role, but for the mints, which are optional.
SwapRolesMeant(i, roles) ==
    /\ roles.owner = Wallet(i.owner) /\ roles.market = Market
    /\ roles.trader_base = Held(i.owner, "base") /\ roles.trader_quote = Held(i.owner, "quote")
    /\ roles.base_vault = Vault("base") /\ roles.quote_vault = Vault("quote")
    /\ roles.base_program = chain.program["base"]
    /\ roles.quote_program = chain.program["quote"]
    /\ roles.base_mint \in {NoKey, Mint("base")} /\ roles.quote_mint \in {NoKey, Mint("quote")}

\* The global accounts of a token are complete and the token's own; its mint is
\* there if the transfer will need it.
GlobalAccountsOf(token, globals) ==
    /\ globals.global = Global(token)
    /\ globals.global_vault = GlobalVault(token)
    /\ globals.market_vault = Vault(token)
    /\ globals.program = chain.program[token]
    /\ \/ globals.mint = Mint(token)
       \/ globals.mint = NoKey /\ globals.program = Program("token")

\* Whichever optional accounts a client leaves out and whichever global accounts do
\* not exist yet, the list that it builds is loaded as it was meant: no account is
\* taken for another one, and the global accounts it asked for are found exactly
\* when they are initialized.
BuiltListsLoad ==
    loaded = Nothing => \A i \in Instructions : Ready(i) =>
        LET result == Loaded(i.kind, i.list)
        IN  /\ result.ok
            /\ i.kind = "Swap" => SwapRolesMeant(i, result.roles)
            /\ i.kind \in {"Swap", "BatchUpdate"} => \A token \in Tokens :
                IF token \in i.asked \cap chain.globals
                THEN GlobalAccountsOf(token, result.globals[token])
                ELSE result.globals[token] = NoGlobalAccounts

\* Whatever is wrong with a list, if it is loaded then its accounts belong together:
\* vaults and global accounts are those of the tokens they are used for, the mint
\* of an instruction on a global account is the one that its vault holds though no
\* loader compares them, and a market never remembers a wrong global account.
LoadedAccountsBelongTogether ==
    /\ \A token \in Tokens : chain.cache[token] \in {NoKey, Global(token)}
    /\ loaded.ok => \A token \in Tokens :
            LET globals == loaded.globals[token]
            IN  globals # NoGlobalAccounts =>
                    /\ globals.global = Global(token)
                    /\ globals.global_vault = GlobalVault(token)
                    /\ globals.market_vault = Vault(token)
                    /\ globals.mint \in {NoKey, Mint(token)}
                    /\ token \in chain.globals
    /\ loaded.ok /\ loaded.kind \in {"Deposit", "Withdraw"} =>
            loaded.roles.vault = Vault(MintOf(loaded.roles.trader_token))
    /\ loaded.ok /\ loaded.kind \in {"GlobalDeposit", "GlobalWithdraw", "GlobalEvict"} =>
            LET mint == MintOf(loaded.roles.mint)
            IN  /\ loaded.roles.global = Global(mint)
                /\ loaded.roles.global_vault = GlobalVault(mint)
                /\ loaded.roles.trader_token = Held(Payer, mint)
                /\ loaded.kind = "GlobalEvict" => MintOf(loaded.roles.evictee_token) = mint

\* Neither side mistakes an account: what a client builds is loaded as meant, and what
\* is loaded, built by a client or not, belongs together.
ListsAgree == BuiltListsLoad /\ LoadedAccountsBelongTogether

=============================================================================
