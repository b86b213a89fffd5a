---------------------------- MODULE MCIngestion ----------------------------
EXTENDS Ingestion

MCPairs == <<"EURUSD", "GBPUSD">>
MCWidth == [atr |-> 2, atr_pct |-> 2, yz |-> 2, vol |-> 2, ker |-> 2, hurst |-> 3, corr |-> 2,
            spread |-> 2, lag |-> 2, sess |-> 2, sess_min |-> 1]

(* The partner leg misses a bar whose effect ends with the last row. *)
MCAvailable == ("EURUSD" :> 1 .. 7) @@ ("GBPUSD" :> (1 .. 7) \ {2})
MCQuoted == ("EURUSD" :> {2, 4}) @@ ("GBPUSD" :> {})
MCWindows == {<<1, 7>>, <<5, 7>>}
=============================================================================
