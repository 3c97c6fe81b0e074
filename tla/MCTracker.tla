----------------------------- MODULE MCTracker ------------------------------
(* Small instances of Tracker.  Senders 1 and 2 share a host and its port    *)
(* and offer different files; sender 3 offers sender 1's file elsewhere.     *)
EXTENDS Tracker

TwoSenders == 1 .. 2
ThreeSenders == 1 .. 3
OneReceiver == {1}

TwoTokens == {"t1", "t2"}
OwnTokens == <<"t1", "t2">>
SharedToken == <<"t1", "t2", "t1">>

TwoAddrs == {"a1", "a2"}
OneHost == <<"a1", "a1">>
TwoHosts == <<"a1", "a1", "a2">>

Direct == <<"direct", "direct">>
Proxied == <<"direct", "one_proxy", "proxies">>
=============================================================================
