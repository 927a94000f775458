------------------------------ MODULE MCTestnetInit ------------------------------
(* The instance of TestnetInit that TLC checks.                            *)
EXTENDS TestnetInit

\* None given, the highest that can be paid for and too high a last one, none at all.
MCPowerArgs == {<<>>, <<500, 501>>, <<100, 0>>}

Change(path, value) == [path |-> path, value |-> value]

(* None; every field that the command sets itself; one field twice, by two *)
(* of its names, with the peers' port that the addresses have; another     *)
(* home; a value, and a path, that cannot be.                              *)
MCConfigChanges ==
    {<<>>,
     <<Change("rpc.laddr", 60000), Change("p2p.laddr", 60001), Change("moniker", 60002)>>,
     <<Change("rpc.laddr", 60000), Change("consensus.timeout_commit", 7),
       Change("p2p.laddr", 26656), Change("RPC.ListenAddress", Unreadable)>>,
     <<Change("home", 60000)>>,
     <<Change("moniker", 60002), Change("consensus.timeout_commit", Unreadable)>>,
     <<Change("rpc", 60000)>>}
=============================================================================
