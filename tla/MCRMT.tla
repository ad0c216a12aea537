------------------------------- MODULE MCRMT --------------------------------
(* A small instance of RMT: two ports, one of which may be on the wire; a flow *)
(* that passes through, one that starts here, one that ends here, one that     *)
(* does both, and one that is forwarded to both ports.                         *)
EXTENDS RMT, TLC

CONSTANTS west, east, through, out, in, local, both, a, b

Order == <<a, b>>
From == through :> west @@ out :> "efcp" @@ in :> east @@ local :> "efcp" @@ both :> "efcp"
To == through :> <<east>> @@ out :> <<east>> @@ in :> <<>> @@ local :> <<>>
      @@ both :> <<west, east>>
Queue == through :> a @@ out :> b @@ in :> a @@ local :> b @@ both :> b
Urgent == a :> 1 @@ b :> 2
Cherished == a :> 2 @@ b :> 3
Amounts == through :> 3 @@ out :> 2 @@ in :> 3 @@ local :> 1 @@ both :> 2

Relay(flows, scheduler, maxQ, stop) ==
    [flows |-> flows, scheduler |-> scheduler, maxQ |-> maxQ, stop |-> stop,
     onWire |-> FALSE, relayOn |-> TRUE]

OnWire ==
    [flows |-> {out, in, local}, scheduler |-> "LongestQFirst", maxQ |-> "TailDrop", stop |-> FALSE,
     onWire |-> TRUE, relayOn |-> FALSE]

Cases ==
    {OnWire,
     Relay({through, out}, "LongestQFirst", "REDDropper", FALSE),
     Relay({through, in}, "LongestQFirst", "ReadRateReducer", FALSE),
     Relay({out, both}, "IterativeScheduling", "TailDrop", TRUE),
     Relay({through, out}, "DumbSch", "DumbMaxQ", FALSE)}
=============================================================================
