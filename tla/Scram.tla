-------------------------------- MODULE Scram --------------------------------
(***************************************************************************)
(* The server side of SCRAM-SHA-256 and SCRAM-SHA-256-PLUS (smtp/scram.rs) *)
(* as the sessions drive it (smtp/session/scram.rs): ScramServer::first    *)
(* answers the client-first message with a nonce of its own, finish checks *)
(* the nonce, the channel binding and the proof of the client-final        *)
(* message, and a failure of either ends the exchange.                     *)
(*                                                                         *)
(* A message is the sequence of its comma-separated fields, each a pair of *)
(* the text before the = ("" when there is none) and the value.  Hashes    *)
(* and keys are terms: ClientKey, its hash StoredKey, and a proof that     *)
(* names the client key it was made with and the message it was made over, *)
(* which is what xor with the signature and hashing let the server find    *)
(* out.  Base64 is injective; stored fields decode or do not.              *)
(***************************************************************************)
EXTENDS Naturals, Sequences

CONSTANTS
    ScExchanges,    \* the exchanges, of any number of connections
    ScNonce,        \* the server nonce of each exchange
    ScBinding,      \* its policy: [kind : {"Unsupported", "Supported", "Required"}, data]
    ScStored,       \* the stored credentials of the account
    ScFirsts,       \* the client-first messages that arrive
    ScFinals,       \* the client-final messages that arrive
    ScUndecodable,  \* the proofs that are no base64, or no 32 octets
    ScChars         \* the characters of a nonce

\* A message is a list of pairs, and a client's nonce is text.
ASSUME MessagesAssumption ==
    \A message \in ScFirsts \cup ScFinals :
        /\ message \in Seq({message[i] : i \in 1 .. Len(message)})
        /\ \A i \in 1 .. Len(message) : message[i] = <<message[i][1], message[i][2]>>
        /\ message \in ScFirsts =>
              \A i \in 1 .. Len(message) : message[i][1] = "r" => message[i][2] \in Seq(ScChars)
\* The nonces of the server have one length, and no two of them are the same.
ASSUME NoncesAssumption ==
    /\ \A e \in ScExchanges : ScNonce[e] \in Seq(ScChars)
    /\ \A e, f \in ScExchanges :
          Len(ScNonce[e]) = Len(ScNonce[f]) /\ (e # f => ScNonce[e] # ScNonce[f])
ASSUME BindingAssumption ==
    \A e \in ScExchanges : ScBinding[e].kind \in {"Unsupported", "Supported", "Required"}

VARIABLES
    server,         \* the ScramServer of each exchange
    phase,          \* what its session waits for: "first", "final" or nothing, "done"
    granted         \* the client-final message each exchange accepted, an Option

scVars == <<server, phase, granted>>

----------------------------------------------------------------------------
\* ScramCredentials::derive, ScramStored::from_credentials and to_credentials.
ClientKey(password, salt) == [password |-> password, salt |-> salt]
Derive(password, salt, iterations) ==
    [salt |-> salt, iterations |-> iterations,
     storedKey |-> [hash |-> ClientKey(password, salt)], decodes |-> TRUE]
ToCredentials(stored) ==
    IF stored.decodes THEN {stored} ELSE {}

\* tag: the value of the first field with this key.
Tag(message, key) ==
    {message[i][2] : i \in {j \in 1 .. Len(message) :
                               /\ message[j][1] = key
                               /\ \A m \in 1 .. j - 1 : message[m][1] # key}}

\* nth_comma_rest(message, 2), and the GS2 header before it.
Bare(message) == SubSeq(message, 3, Len(message))
Gs2(message) == SubSeq(message, 1, 2)

NoBinding == <<"", "n">>
Endpoint == <<"p", "tls-server-end-point">>
FlagHonoured(binding, flag) ==
    /\ binding.kind = "Supported" => flag = NoBinding
    /\ binding.kind = "Required" => flag = Endpoint

\* Mutant: the nonce of the client alone is to be echoed.
FirstClientNonce(srv, message, credentials) ==
    IF /\ Len(message) >= 3
       /\ FlagHonoured(srv.binding, message[1])
       /\ Tag(Bare(message), "n") # {} /\ Tag(Bare(message), "r") # {}
    THEN LET nonce == CHOOSE r \in Tag(Bare(message), "r") : TRUE
         IN {[srv EXCEPT !.bare = Bare(message), !.combined = {nonce}, !.gs2 = Gs2(message),
                         !.first = <<<<"r", nonce>>, <<"s", credentials.salt>>,
                                     <<"i", credentials.iterations>>>>]}
    ELSE {}

\* ScramServer::first: the server it leaves, or None.
First(srv, message, credentials) ==
    IF /\ Len(message) >= 3
       /\ FlagHonoured(srv.binding, message[1])
       /\ Tag(Bare(message), "n") # {} /\ Tag(Bare(message), "r") # {}
    THEN LET combined == (CHOOSE r \in Tag(Bare(message), "r") : TRUE) \o srv.nonce
         IN {[srv EXCEPT !.bare = Bare(message), !.combined = {combined}, !.gs2 = Gs2(message),
                         !.first = <<<<"r", combined>>, <<"s", credentials.salt>>,
                                     <<"i", credentials.iterations>>>>]}
    ELSE {}

\* client-final-without-proof: everything before the last ,p=.
ProofAt(message) == {i \in 2 .. Len(message) : message[i][1] = "p"
                                               /\ \A j \in i + 1 .. Len(message) : message[j][1] # "p"}
WithoutProof(message) == SubSeq(message, 1, (CHOOSE i \in ProofAt(message) : TRUE) - 1)
AuthMessage(srv, message) == srv.bare \o srv.first \o WithoutProof(message)

\* The channel binding: c= repeats the GS2 header and names the endpoint.
Expected(srv) ==
    [header |-> srv.gs2, data |-> IF srv.binding.kind = "Required" THEN srv.binding.data ELSE ""]
\* Mutant: only the GS2 header of c= is compared.
BindingHeader(srv, message) ==
    srv.binding.kind = "Unsupported" \/ \E c \in Tag(message, "c") : c.header = srv.gs2
BindingHolds(srv, message) ==
    srv.binding.kind = "Unsupported" \/ Tag(message, "c") = {Expected(srv)}

ProofHolds(srv, message, credentials) ==
    /\ ProofAt(message) # {}
    /\ \E proof \in Tag(message, "p") \ ScUndecodable :
          /\ [hash |-> proof.key] = credentials.storedKey
          /\ proof.over = AuthMessage(srv, message)

\* ScramServer::finish, whether it accepts.
Finish(srv, message, credentials) ==
    /\ srv.combined # {} /\ Tag(message, "r") = srv.combined
    /\ BindingHolds(srv, message)
    /\ ProofHolds(srv, message, credentials)

----------------------------------------------------------------------------
\* ScramServer::new and with_channel_binding.
NewServer(e) ==
    [nonce |-> ScNonce[e], binding |-> ScBinding[e], bare |-> <<>>, first |-> <<>>,
     combined |-> {}, gs2 |-> <<>>]

ScInit ==
    /\ server = [e \in ScExchanges |-> NewServer(e)]
    /\ phase = [e \in ScExchanges |-> "first"]
    /\ granted = [e \in ScExchanges |-> {}]

\* scram_client_first: every failure, an account without credentials among
\* them, ends the exchange.
ClientFirst(e, message) ==
    /\ phase[e] = "first"
    /\ LET started == UNION {First(server[e], message, c) : c \in ToCredentials(ScStored)}
       IN IF started = {}
          THEN phase' = [phase EXCEPT ![e] = "done"] /\ UNCHANGED server
          ELSE /\ \E srv \in started : server' = [server EXCEPT ![e] = srv]
               /\ phase' = [phase EXCEPT ![e] = "final"]
    /\ UNCHANGED granted

\* scram_client_final: accepted or not, the exchange is over.
ClientFinal(e, message) ==
    /\ phase[e] = "final"
    /\ phase' = [phase EXCEPT ![e] = "done"]
    /\ granted' = IF Finish(server[e], message, ScStored)
                  THEN [granted EXCEPT ![e] = {message}] ELSE granted
    /\ UNCHANGED server

ScNext ==
    \E e \in ScExchanges :
       \/ \E message \in ScFirsts : ClientFirst(e, message)
       \/ \E message \in ScFinals : ClientFinal(e, message)

ScSpec == ScInit /\ [][ScNext]_scVars

----------------------------------------------------------------------------
\* A client-final message serves one exchange: whoever repeats what another
\* exchange accepted is refused, whatever it sent first
\* (scram.rs, finish: "The nonce must be echoed unchanged").
ProofsServeOnce ==
    \A e, f \in ScExchanges : e # f => granted[e] \cap granted[f] = {}

\* An exchange is granted only to the account's key over this exchange, and
\* under a binding policy to a client that saw what the server offers: on TLS
\* it bound to this server's certificate, or said it would not bind
\* (scram.rs, ChannelBinding).  Where the proof ends the message, it covers
\* the binding.
GrantsProved ==
    \A e \in ScExchanges : \A message \in granted[e] :
       \E proof \in Tag(message, "p") :
          /\ [hash |-> proof.key] = ScStored.storedKey
          /\ \E i \in 1 .. Len(proof.over) : proof.over[i] = <<"r", server[e].first[1][2]>>
          /\ ScBinding[e].kind # "Unsupported" =>
                LET flag == IF ScBinding[e].kind = "Required" THEN Endpoint ELSE NoBinding
                    data == IF ScBinding[e].kind = "Required" THEN ScBinding[e].data ELSE ""
                IN /\ server[e].gs2[1] = flag
                   /\ message[Len(message)][1] = "p" =>
                        \E i \in 1 .. Len(proof.over) :
                           proof.over[i] = <<"c", [header |-> server[e].gs2, data |-> data]>>

\* What the exchanges grant, in any interleaving of them, is proved by the
\* account's key and granted once (scram.rs, ScramServer).
ScramCorrect == ProofsServeOnce /\ GrantsProved
=============================================================================
