----------------------------- MODULE UserClient -----------------------------
(***************************************************************************)
(* Exclusive access to the driver (ArcMSRUserclient.cpp and                *)
(* setClientActive in ArcMSRController.cpp).  Each connection has a user   *)
(* client object of its own; what they share is the flag clientActive,     *)
(* changed behind the command gate, and the open count of the provider.    *)
(* The threads of a process make their calls independently.  When the      *)
(* process exits or drops its connection, clientClose is called, on yet    *)
(* another thread and whatever the others are doing.                       *)
(***************************************************************************)
EXTENDS Naturals, FiniteSets

CONSTANTS
    Clients,    \* user client objects
    Threads,    \* the threads of each process
    Closer,     \* the thread that calls clientClose
    NoClient

ASSUME UserClientAssumption == NoClient \notin Clients /\ Closer \notin Threads

VARIABLES
    clientActive,
    holder,      \* the client that set clientActive last
    provider,    \* the client that has the provider open (IOService::open)
    terminated,  \* the provider was terminated
    connected,   \* the clients started and not terminated
    fProvider,   \* the clients whose fProvider is not NULL
    pc,          \* per client and thread: the call it is in
    granted,     \* the clients whose open() succeeded, until they give up the flag
    overlapped,  \* the connections whose clientClose overlapped any other call
    openOverlapped  \* ... and those of them where that call was an open()

shared  == <<clientActive, holder, provider, granted>>
history == <<overlapped, openOverlapped>>
vars    == <<shared, terminated, connected, fProvider, pc, history>>

Idle == [t \in Threads \cup {Closer} |-> "idle"]

Init ==
    /\ clientActive = FALSE /\ holder = NoClient
    /\ provider = NoClient
    /\ terminated = FALSE
    /\ connected = {} /\ fProvider = {}
    /\ pc = [c \in Clients |-> Idle]
    /\ granted = {} /\ overlapped = {} /\ openOverlapped = {}

\* isInactive(): this object was terminated, or its provider was and took it
\* along.
Inactive(c) == c \notin connected \/ terminated

At(c, t, step)   == pc[c][t] = step
Goto(c, t, step) == pc' = [pc EXCEPT ![c][t] = step]

\* What remains of an object that is gone would be in the way of a new one of
\* the same name.
Forgotten(c) ==
    pc[c] = Idle /\ provider # c /\ ~(clientActive /\ holder = c)

-----------------------------------------------------------------------------
(* The connection, and the provider.                                       *)

\* initWithTask and start: a new connection.
start(c) ==
    /\ c \notin connected /\ ~terminated /\ Forgotten(c)
    /\ connected' = connected \cup {c}
    /\ fProvider' = fProvider \cup {c}
    /\ overlapped' = overlapped \ {c} /\ openOverlapped' = openOverlapped \ {c}
    /\ UNCHANGED <<shared, terminated, pc>>

\* IOService::terminate makes the driver and all its clients inactive.
TerminateProvider ==
    /\ ~terminated
    /\ terminated' = TRUE
    /\ UNCHANGED <<shared, connected, fProvider, pc, history>>

\* A new instance of the driver, once nothing refers to the old one.
InitializeController ==
    /\ terminated /\ connected = {} /\ provider = NoClient
    /\ pc = [c \in Clients |-> Idle]
    /\ clientActive' = FALSE /\ holder' = NoClient
    /\ terminated' = FALSE
    /\ UNCHANGED <<provider, connected, fProvider, pc, granted, history>>

-----------------------------------------------------------------------------
(* Calls.  Each begins with the check for inactivity and then goes through *)
(* fProvider, which may be NULL by then.                                   *)

Opening == {"activate", "openProvider"}

\* The calls that are under way on the client's threads, by the step they are at.
Calls(c) == {pc[c][t] : t \in Threads} \ {"idle"}

\* These calls meet clientClose.
Overlap(c, calls) ==
    /\ overlapped' = IF calls = {} THEN overlapped ELSE overlapped \cup {c}
    /\ openOverlapped' = IF calls \cap Opening = {} THEN openOverlapped
                         ELSE openOverlapped \cup {c}

\* Mutant: the calls go ahead without asking whether the object is inactive.
BeginUnchecked(c, t, step) ==
    /\ At(c, t, "idle")
    /\ Goto(c, t, step)
    /\ IF At(c, Closer, "idle") THEN UNCHANGED history ELSE Overlap(c, {step})
    /\ UNCHANGED <<shared, terminated, connected, fProvider>>

Begin(c, t, step) ==
    /\ At(c, t, "idle") /\ ~Inactive(c)
    /\ Goto(c, t, step)
    /\ IF At(c, Closer, "idle") THEN UNCHANGED history ELSE Overlap(c, {step})
    /\ UNCHANGED <<shared, terminated, connected, fProvider>>

open(c, t)    == Begin(c, t, "activate")
close(c, t)   == Begin(c, t, "deactivate")
request(c, t) == Begin(c, t, "request")

\* send, recv or a clear, the gate behind which MessageQueue goes on included.
requestDone(c, t) ==
    /\ At(c, t, "request") /\ c \in fProvider
    /\ Goto(c, t, "idle")
    /\ UNCHANGED <<shared, terminated, connected, fProvider, history>>

\* setClientActive(true), behind the gate: refused if any client is active.
activate(c, t) ==
    /\ At(c, t, "activate") /\ c \in fProvider
    /\ Goto(c, t, IF clientActive THEN "idle" ELSE "openProvider")
    /\ clientActive' = TRUE
    /\ holder' = IF clientActive THEN holder ELSE c
    /\ UNCHANGED <<provider, granted, terminated, connected, fProvider, history>>

\* fProvider->open(this) is refused, with nobody looking, while another
\* client has the provider open or when the provider is inactive.
openProvider(c, t) ==
    /\ At(c, t, "openProvider") /\ c \in fProvider
    /\ provider' = IF provider = NoClient /\ ~terminated THEN c ELSE provider
    /\ granted' = granted \cup {c}
    /\ Goto(c, t, "idle")
    /\ UNCHANGED <<clientActive, holder, terminated, connected, fProvider, history>>

\* setClientActive(false), behind the gate: it does not ask who is active.
deactivate(c, t) ==
    /\ At(c, t, "deactivate") /\ c \in fProvider
    /\ clientActive' = FALSE
    /\ granted' = granted \ {c}
    /\ Goto(c, t, "closeProvider")
    /\ UNCHANGED <<holder, provider, terminated, connected, fProvider, history>>

\* Mutant: the provider is not closed on the way out of clientClose.
closeProviderEarly(c, t) ==
    /\ At(c, t, "closeProvider") /\ c \in fProvider
    /\ provider' = IF provider = c /\ t # Closer THEN NoClient ELSE provider
    /\ Goto(c, t, IF t = Closer THEN "forget" ELSE "idle")
    /\ UNCHANGED <<clientActive, holder, granted, terminated, connected, fProvider,
                   history>>

\* The provider is closed if this client has it open.
closeProvider(c, t) ==
    /\ At(c, t, "closeProvider") /\ c \in fProvider
    /\ provider' = IF provider = c THEN NoClient ELSE provider
    /\ Goto(c, t, IF t = Closer THEN "forget" ELSE "idle")
    /\ UNCHANGED <<clientActive, holder, granted, terminated, connected, fProvider,
                   history>>

\* The call goes through fProvider after clientClose has set it to NULL.
useNull(c, t) ==
    /\ pc[c][t] \in {"request", "activate", "openProvider", "deactivate", "closeProvider"}
    /\ c \notin fProvider
    /\ Goto(c, t, "panic")
    /\ UNCHANGED <<shared, terminated, connected, fProvider, history>>

-----------------------------------------------------------------------------
(* clientClose.                                                            *)

\* Mutant: the connection goes away without close().
clientCloseOnly(c) ==
    /\ c \in connected /\ At(c, Closer, "idle")
    /\ Goto(c, Closer, "forget")
    /\ Overlap(c, Calls(c))
    /\ UNCHANGED <<shared, terminated, connected, fProvider>>

\* It calls close(), which does nothing once the provider was terminated.
clientClose(c) ==
    /\ c \in connected /\ At(c, Closer, "idle")
    /\ Goto(c, Closer, IF Inactive(c) THEN "forget" ELSE "deactivate")
    /\ Overlap(c, Calls(c))
    /\ UNCHANGED <<shared, terminated, connected, fProvider>>

\* Mutant: the object goes away with its pointer to the provider.
forgetNothing(c) ==
    /\ At(c, Closer, "forget")
    /\ Goto(c, Closer, "terminate")
    /\ UNCHANGED <<shared, terminated, connected, fProvider, history>>

\* fProvider = NULL.
forget(c) ==
    /\ At(c, Closer, "forget")
    /\ fProvider' = fProvider \ {c}
    /\ Goto(c, Closer, "terminate")
    /\ UNCHANGED <<shared, terminated, connected, history>>

terminate(c) ==
    /\ At(c, Closer, "terminate")
    /\ connected' = connected \ {c}
    /\ granted' = granted \ {c}
    /\ Goto(c, Closer, "idle")
    /\ UNCHANGED <<clientActive, holder, provider, terminated, fProvider, history>>

-----------------------------------------------------------------------------
Panicked == \E c \in Clients, t \in Threads \cup {Closer} : At(c, t, "panic")

Call(c, t) == open(c, t) \/ close(c, t) \/ request(c, t)

Step(c, t) ==
    \/ requestDone(c, t) \/ activate(c, t) \/ openProvider(c, t)
    \/ deactivate(c, t) \/ closeProvider(c, t) \/ useNull(c, t)

Connection(c) == start(c) \/ clientClose(c) \/ forget(c) \/ terminate(c)

Next ==
    /\ ~Panicked
    /\ \/ TerminateProvider \/ InitializeController
       \/ \E c \in Clients :
            \/ Connection(c)
            \/ \E t \in Threads : Call(c, t)
            \/ \E t \in Threads \cup {Closer} : Step(c, t)

Spec == Init /\ [][Next]_vars

-----------------------------------------------------------------------------
(* Properties.                                                             *)

TypeOK ==
    /\ clientActive \in BOOLEAN
    /\ {holder, provider} \subseteq Clients \cup {NoClient}
    /\ terminated \in BOOLEAN
    /\ pc \in [Clients -> [Threads \cup {Closer} ->
                 {"idle", "request", "activate", "openProvider", "deactivate",
                  "closeProvider", "forget", "terminate", "panic"}]]
    /\ connected \subseteq Clients /\ fProvider \subseteq connected
    /\ granted \subseteq Clients
    /\ overlapped \subseteq Clients /\ openOverlapped \subseteq Clients

\* A set flag was set by a client that is still connected: one that dies, in the
\* middle of a recv() say, never leaves the driver locked.  Only an open() of its
\* own that was under way together with its clientClose can set the flag when
\* clientClose has cleared it already; and nobody is let in any more when the
\* provider was terminated.
LockHasOwner ==
    clientActive => holder \in connected \cup openOverlapped \/ terminated

\* The provider is never left open by a connection that is gone, unless an open()
\* of it overlapped clientClose, or the provider was terminated under it: then
\* close() returns at once, the "parent" is not closed "if required"
\* (ArcMSRUserclient.cpp:184), and the termination never completes.
ProviderHasOwner ==
    provider # NoClient => provider \in connected \cup openOverlapped \/ terminated

\* A call can find fProvider NULL only by overlapping clientClose: the check for
\* inactivity turns every later one away.
NullUseNeedsOverlap ==
    \A c \in Clients, t \in Threads \cup {Closer} :
        At(c, t, "panic") => c \in overlapped /\ t # Closer

\* "Ensure only one userclient can be active at a time"
\* (ArcMSRController.cpp:309): of the clients whose open() succeeded one at most
\* has not begun to give its access up.  (A client whose open() overlapped its
\* own clientClose does not count here: it is on its way out.)
OneClientActive == Cardinality(granted \ openOverlapped) <= 1
=============================================================================
