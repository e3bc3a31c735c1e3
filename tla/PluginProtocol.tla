--------------------------- MODULE PluginProtocol ---------------------------
(***************************************************************************)
(* The plugin protocol seen from both ends: the server of sdk/go/plugin    *)
(* and the client of internal/plugins.  Texts of which only the length     *)
(* matters are their number of bytes.                                      *)
(***************************************************************************)
EXTENDS Naturals, Sequences, Functions

CONSTANTS
    PluginName,        \* the names identifierPattern accepts
    NoPermission,      \* the empty permission
    MaxActions,        \* 100 in the code: actions, and permissions of one action
    MaxDescription,    \* 1000: bytes of a description, and of an error
    MaxVersion,        \* 100: bytes of a version
    MaxManifest,       \* 256 KiB: bytes of a manifest
    MaxRequest,        \* 1 MiB: bytes of a request body
    MaxResponse,       \* 1 MiB: bytes of an output, and of a response body
    RequestEnvelope,   \* bytes of a request without its input
    ResponseEnvelope   \* bytes of a response without its output

ASSUME ProtocolAssumption ==
    /\ {MaxDescription, MaxRequest, MaxResponse, RequestEnvelope, ResponseEnvelope} \subseteq Nat
    /\ RequestEnvelope < MaxRequest          \* a request has room for an input

\* The longest deadline the server accepts, in seconds.
MaxDeadline == 24 * 3600

-----------------------------------------------------------------------------
\* What the client decodes: a record of type Manifest, and the bytes it was read from.
IsManifest(m) ==
    m = [id |-> m.id, version |-> m.version, actions |-> m.actions, bytes |-> m.bytes]

\* ValidateManifest of the SDK: a server starts only with such a manifest.
ServerValidatesManifest(m) ==
    /\ m.id \in PluginName
    /\ m.version \in 1 .. MaxVersion
    /\ Len(m.actions) \in 1 .. MaxActions
    /\ \A i \in DOMAIN m.actions :
         LET a == m.actions[i]
         IN /\ a.name \in PluginName
            /\ \A j \in DOMAIN m.actions : m.actions[j].name = a.name => i = j
            /\ a.handler
            /\ a.description <= MaxDescription
            /\ Len(a.permissions) <= MaxActions
            /\ Range(a.permissions) \subseteq PluginName
            /\ IsInjective(a.permissions)

\* ValidateManifest of the client.
ValidateManifest(m) ==
    /\ m.id # "" /\ m.version > 0
    /\ Len(m.actions) \in 1 .. MaxActions
    /\ \A i \in DOMAIN m.actions :
         /\ m.actions[i].name \in PluginName
         /\ \A j \in DOMAIN m.actions : m.actions[j].name = m.actions[i].name => i = j

\* Discover returns no error: the body is bounded before it is decoded.
Discovers(m) == m.bytes <= MaxManifest /\ ValidateManifest(m)

ManifestHasAction(m, action) == \E i \in DOMAIN m.actions : m.actions[i].name = action

collectPluginPermissions(m) ==
    UNION {Range(m.actions[i].permissions) : i \in DOMAIN m.actions} \ {NoPermission}

-----------------------------------------------------------------------------
\* A request of the client: the action, the bytes of the input, the seconds left.
validateRequest(r) == r.deadline \in 1 .. MaxDeadline /\ r.input > 0

\* handleAction: what the handler made of the request, [ok, bytes of output or error].
handleAction(m, r, handled) ==
    LET Answer(status, output, error) ==
            [http |-> 200, status |-> status, key |-> r.key, output |-> output, error |-> error]
        Refuse(code) == [Answer("", 0, 0) EXCEPT !.http = code]
    IN IF ~ManifestHasAction(m, r.action) THEN Refuse(404)
       ELSE IF r.input + RequestEnvelope > MaxRequest THEN Refuse(413)
       ELSE IF ~validateRequest(r) THEN Refuse(422)
       ELSE IF ~handled.ok
            THEN Answer("failed", 0, IF handled.bytes > MaxDescription THEN MaxDescription
                                     ELSE handled.bytes)
       ELSE IF handled.bytes > MaxResponse THEN Answer("failed", 0, 0)
       ELSE Answer("succeeded", handled.bytes, 0)

\* Call returns no error.
CallSucceeds(r, response) ==
    /\ response.output + response.error + ResponseEnvelope <= MaxResponse
    /\ response.http = 200
    /\ response.key = r.key
    /\ response.output <= MaxResponse /\ response.error <= MaxDescription
    /\ response.status = "succeeded"
=============================================================================
