---------------------------- MODULE SessionState ----------------------------
(***************************************************************************)
(* The state machine of one session of the client: the enums SessionState, *)
(* InitState, RelayedState and ReverseState of session/session_state.rs    *)
(* and the table of transitions that SessionState::transition allows.      *)
(*                                                                         *)
(* A state is a record of a kind and a phase.  ReverseConnection states    *)
(* are flattened: InProgress(i) has phase i, Finished(Ok(_)) has phase     *)
(* "FinishedOk" and Finished(Err(_)) has phase "FinishedErr".  The session *)
(* and the errors that some variants carry are left out.                   *)
(***************************************************************************)

InitStates == {"ConnectIntent", "Initializing", "ChallengeHandshake",
               "HandshakeResponse", "ChallengeVerified",
               "SessionRegistered", "Ready"}

RelayedStates == {"Initializing", "Ready"}

ReverseStates == InitStates \cup {"Awaiting", "FinishedOk", "FinishedErr"}

Outgoing(i) == [kind |-> "Outgoing", phase |-> i]

Incoming(i) == [kind |-> "Incoming", phase |-> i]

Reverse(r) == [kind |-> "Reverse", phase |-> r]

Relayed(r) == [kind |-> "Relayed", phase |-> r]

Established == [kind |-> "Established", phase |-> ""]

FailedEstablish == [kind |-> "FailedEstablish", phase |-> ""]

Closing == [kind |-> "Closing", phase |-> ""]

Closed == [kind |-> "Closed", phase |-> ""]

RestartConnect == [kind |-> "RestartConnect", phase |-> ""]

SessionStates ==
    [kind : {"Outgoing", "Incoming"}, phase : InitStates]
      \cup [kind : {"Reverse"}, phase : ReverseStates]
      \cup [kind : {"Relayed"}, phase : RelayedStates]
      \cup {Established, FailedEstablish, Closing, Closed, RestartConnect}

(***************************************************************************)
(* InitState::allowed: the handshake only moves to the next phase.         *)
(***************************************************************************)
InitAllowed ==
    { <<"ConnectIntent", "Initializing">>,
      <<"Initializing", "ChallengeHandshake">>,
      <<"ChallengeHandshake", "HandshakeResponse">>,
      <<"HandshakeResponse", "ChallengeVerified">>,
      <<"ChallengeVerified", "SessionRegistered">>,
      <<"SessionRegistered", "Ready">> }

(***************************************************************************)
(* ReverseState::allowed.                                                  *)
(***************************************************************************)
ReverseAllowed ==
    { <<"Awaiting", "ConnectIntent">>, <<"Ready", "FinishedOk">> }
      \cup InitAllowed
      \cup (InitStates \X {"FinishedErr"})

(***************************************************************************)
(* The states of a session that is being initialised.                      *)
(***************************************************************************)
Connecting(s) ==
    s.kind \in {"Outgoing", "Incoming", "Reverse", "Relayed", "RestartConnect"}

(***************************************************************************)
(* The match of SessionState::transition.                                  *)
(***************************************************************************)
TransitionAllowed(s, t) ==
    \/ t = FailedEstablish /\ (Connecting(s) \/ s = FailedEstablish)
    \/ /\ t = Established
       /\ s \in {Incoming("Ready"), Outgoing("Ready"), Relayed("Ready"),
                 Reverse("FinishedOk"), Established}
    \/ /\ t \in {Reverse("Awaiting"), Relayed("Initializing")}
       /\ s \in {Outgoing("ConnectIntent"), RestartConnect}
    \/ /\ t \in {Outgoing("ConnectIntent"), Incoming("ConnectIntent")}
       /\ s \in {Closed, FailedEstablish}
    \/ t = RestartConnect /\ Connecting(s)
    \/ t = Outgoing("Initializing") /\ s = RestartConnect
    \/ t = Closing /\ s = Established
    \/ t = Closed /\ s = Closing
    \/ /\ s.kind = t.kind
       /\ \/ s.kind \in {"Incoming", "Outgoing"} /\ <<s.phase, t.phase>> \in InitAllowed
          \/ s.kind = "Relayed" /\ s.phase = "Initializing" /\ t.phase = "Ready"
          \/ s.kind = "Reverse" /\ <<s.phase, t.phase>> \in ReverseAllowed

(***************************************************************************)
(* The state that transition_incoming asks for: an incoming handshake that *)
(* answers our ReverseConnection message advances the reverse states.      *)
(***************************************************************************)
IncomingTarget(s, i) == IF s.kind = "Reverse" THEN Reverse(i) ELSE Incoming(i)

(***************************************************************************)
(* SessionState::is_finished.                                              *)
(***************************************************************************)
IsFinished(s) == s \in {Established, Closed, FailedEstablish}

=============================================================================
