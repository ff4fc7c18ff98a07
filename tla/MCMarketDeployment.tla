------------------------- MODULE MCMarketDeployment -------------------------
(***************************************************************************)
(* Six markets for TLC, after those of src/markets.                       *)
(***************************************************************************)
EXTENDS MarketDeployment, TLC

AllSymbols == {"WETH", "WBTC", "AAVE", "CRV", "DAI", "SUSD", "USDT", "LUSD"}

\* A reserve with no special setting.
Plain ==
  [strategy |-> "volatile", aTokenImpl |-> "AToken", nativeYield |-> FALSE,
   noLTV |-> FALSE, collateral |-> TRUE, borrowing |-> TRUE, stable |-> FALSE,
   ceiling |-> FALSE, isolation |-> FALSE, fee |-> TRUE]

\* Blast: live, one reserve with native yield, no multisig.
Blast ==
  [live |-> TRUE, testnetMarket |-> FALSE, l2 |-> FALSE, rewards |-> FALSE,
   treasury |-> FALSE, symbols |-> <<"WETH", "WBTC">>, later |-> {}, extended |-> FALSE,
   assets |-> {"WETH", "WBTC"}, oracles |-> {"WETH", "WBTC"}, rewardSymbols |-> <<>>,
   mockPrices |-> {}, wrappedNative |-> "WETH", hasWrapped |-> TRUE, ui |-> FALSE,
   multisig |-> Nobody, guardian |-> Nobody, transfer |-> FALSE, paraswap |-> FALSE,
   strategies |-> <<"volatile">>,
   params |-> [s \in AllSymbols |-> [Plain EXCEPT !.nativeYield = s = "WETH"]],
   names |-> [s \in AllSymbols |-> {s}], emodes |-> <<>>,
   commands |-> {"review-e-mode", "deploy-yield-distributor",
                 "deploy-pac-pool-wrapper"}]

\* Blast's mainnet: the market file has the address of one of its reserves.
BlastMainnet == [Blast EXCEPT !.assets = {"WETH"}]

\* An L2 network with what Optimism's and Polygon's markets ask for: a treasury
\* of its own, a multisig and a guardian, an asset in isolation, one without a
\* liquidation threshold, a category, and an asset that is added later.
Optimism ==
  [live |-> TRUE, testnetMarket |-> FALSE, l2 |-> TRUE, rewards |-> FALSE,
   treasury |-> TRUE, symbols |-> <<"DAI", "SUSD", "AAVE", "USDT", "LUSD">>,
   later |-> {"LUSD"}, extended |-> FALSE,
   assets |-> {"DAI", "SUSD", "AAVE", "USDT", "LUSD"},
   oracles |-> {"DAI", "SUSD", "AAVE", "USDT", "LUSD"}, rewardSymbols |-> <<>>,
   mockPrices |-> {}, wrappedNative |-> "WETH", hasWrapped |-> TRUE, ui |-> TRUE,
   multisig |-> Multisig, guardian |-> Guardian, transfer |-> TRUE, paraswap |-> TRUE,
   strategies |-> <<"volatile", "stable">>,
   params |-> [s \in AllSymbols |->
                 CASE s = "DAI"  -> [Plain EXCEPT !.strategy = "stable", !.stable = TRUE,
                                                  !.isolation = TRUE]
                   [] s = "SUSD" -> [Plain EXCEPT !.strategy = "stable", !.collateral = FALSE]
                   [] s = "AAVE" -> [Plain EXCEPT !.aTokenImpl = "DelegationAwareAToken"]
                   [] s = "USDT" -> [Plain EXCEPT !.ceiling = TRUE]
                   [] OTHER      -> Plain],
   names |-> [s \in AllSymbols |-> {s}],
   emodes |-> <<[id |-> 1, assets |-> <<"DAI", "SUSD">>, oracle |-> "none"]>>,
   commands |-> {"add-new-asset", "update-oracle", "set-fallback-oracle",
                 "review-rate-strategies", "review-supply-caps",
                 "transfer-protocol-ownership", "renounce-pool-admin",
                 "view-protocol-roles", "transfer-ownership", "market-registry:add"}]

\* The same network before its market is handed over: the tasks that its pool
\* admin runs. The file gains an aToken of either kind.
OptimismKept ==
  [Optimism EXCEPT !.transfer = FALSE, !.symbols = <<"DAI", "SUSD", "LUSD", "AAVE">>,
                   !.later = {"LUSD", "AAVE"}, !.assets = {"DAI", "SUSD", "LUSD", "AAVE"},
                   !.rewards = TRUE,
                   !.commands = {"add-new-asset", "update-oracle", "set-fallback-oracle",
                                 "review-rate-strategies", "review-supply-caps",
                                 "upgrade-atokens-and-review"}]

\* And where an upgrade may ask for a revision that is not the new one's; an aToken
\* of either kind from the start.
OptimismMisnumbered ==
  [OptimismKept EXCEPT !.symbols = <<"DAI", "AAVE", "LUSD">>, !.later = {"LUSD"},
                       !.assets = {"DAI", "AAVE", "LUSD"}, !.emodes = <<>>,
                       !.commands = {"add-new-asset", "upgrade-atokens-and-review",
                                     "upgrade-atokens-and-review --revision other"}]

\* hardhat's own network: test tokens, mock feeds, rewards, the staked token.
TestMarket ==
  [live |-> FALSE, testnetMarket |-> TRUE, l2 |-> FALSE, rewards |-> TRUE,
   treasury |-> FALSE, symbols |-> <<"WETH", "AAVE">>, later |-> {}, extended |-> FALSE,
   assets |-> {}, oracles |-> {}, rewardSymbols |-> <<"CRV">>,
   mockPrices |-> {"WETH", "AAVE", "CRV"}, wrappedNative |-> "WETH", hasWrapped |-> FALSE,
   ui |-> FALSE, multisig |-> Nobody, guardian |-> Nobody, transfer |-> FALSE,
   paraswap |-> FALSE, strategies |-> <<"volatile">>,
   params |-> [s \in AllSymbols |-> [Plain EXCEPT !.nativeYield = s = "WETH"]],
   names |-> [s \in AllSymbols |-> {s}],
   emodes |-> <<[id |-> 1, assets |-> <<"AAVE">>, oracle |-> "none"]>>,
   commands |-> {"review-supply-caps"}]

HandedOverMarkets == {Optimism}
AllMarkets ==
  {Blast, BlastMainnet, Optimism, OptimismKept, OptimismMisnumbered, TestMarket}
=============================================================================
