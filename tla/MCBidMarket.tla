------------------------------ MODULE MCBidMarket -----------------------------
(* Model checking of BidMarket: two tasks compete for the cores of a node with
   two slots, and one of them bids again. *)
EXTENDS BidMarket, TLC

Nothing == [x \in {} |-> 0]
Anything == [architectures |-> {}, systems |-> {}, minimum |-> Nothing, accelerators |-> {},
             commands |-> {}, features |-> {}, runtimes |-> Nothing]

MCTasks == {"a", "b"}
MCBids == 1 .. 3
Bid(t, s, w) == [task |-> t, score |-> s, remaining |-> Unknown, loss |-> 0, slack |-> Unknown,
                 priority |-> 0, accelerator |-> "any", wants |-> w]
MCOffer == <<Bid("a", 40, Anything), Bid("b", 50, Anything), Bid("a", 45, Anything)>>
MCNeed == [t \in MCTasks |-> [r \in Resources |->
             CASE r = "slot" -> 1 [] r = "cpu" -> 2 [] OTHER -> 0]]
MCNode == [capacity |-> [r \in {"slot", "cpu"} |-> 2],
           accelerators |-> {},
           capabilities |-> [architecture |-> "x86", system |-> "linux", amount |-> Nothing,
                             accelerators |-> {}, commands |-> {}, features |-> {},
                             runtimes |-> [x \in {"python"} |-> <<3, 9>>]]]
MCPolicy == [strategy |-> "credit_fair", increment |-> 1, max |-> 1, decay |-> 0,
             window |-> 4, floor |-> 1]
===============================================================================
