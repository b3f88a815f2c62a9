---------------------------- MODULE CaptureScope ----------------------------
(***************************************************************************)
(* The capture attachment of one Connection: the sink pointer and its      *)
(* token, replaced by raw attach and detach calls and by nested            *)
(* SyncCaptureScope objects, which put back what they found.               *)
(*                                                                         *)
(* Scopes may share a sink.  A scope is detached or destroyed in any       *)
(* order; one that is destroyed out of order ends the process.             *)
(***************************************************************************)
EXTENDS Integers, FiniteSets

CONSTANTS
    ScopeIds, Sinks, NoSink,
    MaxAttachments  \* bound: attachments made

ASSUME ScopeAssumption ==
    IsFiniteSet(ScopeIds) /\ NoSink \notin Sinks /\ MaxAttachments \in Nat

VARIABLES
    sink,           \* m_sync_capture
    sinkToken,      \* m_sync_capture_token
    lastToken,      \* m_next_sync_capture_token
    scope,          \* scope[i]: the fields of scope object i
    rawToken,       \* token of the last raw attach or detach (history)
    terminated      \* std::terminate was called

scopeVars == <<sink, sinkToken, lastToken, scope, rawToken, terminated>>

Gone == [active |-> FALSE, sink |-> NoSink, token |-> 0, previous |-> NoSink,
         previousToken |-> 0]

ScopeInit ==
    /\ sink = NoSink /\ sinkToken = 0 /\ lastToken = 0
    /\ scope = [i \in ScopeIds |-> Gone]
    /\ rawToken = 0
    /\ terminated = FALSE

\* attach_sync_capture, and detach_sync_capture for NoSink
attach_sync_capture(s) ==
    /\ lastToken < MaxAttachments
    /\ sink' = s
    /\ sinkToken' = lastToken + 1 /\ lastToken' = lastToken + 1

\* The attachment is recognised by its sink and its token.
IsCurrent(i) == sink = scope[i].sink /\ sinkToken = scope[i].token

\* Mutant: what the scope found is forgotten.
RestoresNothing(i) == sink' = NoSink /\ sinkToken' = 0
Restores(i) == sink' = scope[i].previous /\ sinkToken' = scope[i].previousToken

\* restore_sync_capture_if_current
restore(i) ==
    /\ IsCurrent(i)
    /\ Restores(i)
    /\ UNCHANGED <<lastToken, rawToken>>

\* The application attaches or detaches a sink itself.
RawAttach(s) ==
    /\ ~terminated
    /\ attach_sync_capture(s)
    /\ rawToken' = sinkToken'
    /\ UNCHANGED <<scope, terminated>>

\* The token a scope will put back.
FoundToken == sinkToken

OpenScope(i, s) ==
    /\ ~terminated /\ scope[i] = Gone
    /\ attach_sync_capture(s)
    /\ scope' = [scope EXCEPT ![i] = [active |-> TRUE, sink |-> s, token |-> sinkToken',
                                      previous |-> sink, previousToken |-> FoundToken]]
    /\ UNCHANGED <<rawToken, terminated>>

\* detach(); out of order it throws and changes nothing.
DetachScope(i) ==
    /\ ~terminated /\ scope[i].active
    /\ restore(i)
    /\ scope' = [scope EXCEPT ![i].active = FALSE]
    /\ UNCHANGED terminated

\* The destructor.
DestroyScope(i) ==
    /\ ~terminated /\ scope[i] # Gone
    /\ \/ /\ ~scope[i].active
          /\ scope' = [scope EXCEPT ![i] = Gone]
          /\ UNCHANGED <<sink, sinkToken, lastToken, rawToken, terminated>>
       \/ /\ scope[i].active /\ restore(i)
          /\ scope' = [scope EXCEPT ![i] = Gone]
          /\ UNCHANGED terminated
       \/ /\ scope[i].active /\ ~IsCurrent(i)
          /\ terminated' = TRUE
          /\ UNCHANGED <<sink, sinkToken, lastToken, scope, rawToken>>

ScopeNext ==
    \/ \E s \in Sinks \cup {NoSink} : RawAttach(s)
    \/ \E i \in ScopeIds : \/ DetachScope(i) \/ DestroyScope(i)
                           \/ \E s \in Sinks : OpenScope(i, s)

ScopeSpec == ScopeInit /\ [][ScopeNext]_scopeVars

-----------------------------------------------------------------------------
(* Properties                                                              *)

\* Every variable stays in its type; a token was given out before.
ScopeTypeOK ==
    /\ sink \in Sinks \cup {NoSink}
    /\ lastToken \in 0..MaxAttachments /\ sinkToken \in 0..lastToken
    /\ rawToken \in 0..lastToken
    /\ scope \in [ScopeIds -> [active : BOOLEAN, sink : Sinks \cup {NoSink},
                               token : 0..lastToken, previous : Sinks \cup {NoSink},
                               previousToken : 0..lastToken]]
    /\ terminated \in BOOLEAN

Active == {i \in ScopeIds : scope[i].active}

\* DESIGN.md:1698: scopes end "in strict LIFO order".  Whatever order they are
\* detached and destroyed in, also when they share a sink, the connection's
\* sink is the last raw one or that of a scope still active, so it never
\* captures into a sink whose scope has ended.
SinkIsOwned ==
    \/ sinkToken = rawToken
    \/ \E i \in Active : sinkToken = scope[i].token /\ sink = scope[i].sink

\* What an active scope will put back is the attachment it replaced: the scope
\* below it is still active, or the attachment is a raw one; so unwinding all
\* scopes in LIFO order leads back to the sink before the first of them.
ScopesNest ==
    \A i \in Active :
        \/ scope[i].previousToken <= rawToken
        \/ \E j \in Active : /\ scope[j].token = scope[i].previousToken
                             /\ scope[j].sink = scope[i].previous
=============================================================================
