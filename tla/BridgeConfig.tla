---------------------------- MODULE BridgeConfig ----------------------------
(***************************************************************************)
(* edge-bridge/src/config.rs and descriptor.rs: what the bridge makes of   *)
(* its environment variables and of the stream's descriptor.  A variable   *)
(* is unset, not a number, or a number of milliseconds; the server's URL   *)
(* is the parts that are looked at; JSON values are its tokens.            *)
(***************************************************************************)
EXTENDS Integers

CONSTANTS
  None,          \* an unset variable; no configuration
  Junk,          \* text that is not an unsigned integer
  Defaults, Maxima,  \* of the four durations, by the name of the field
  MaxDescriptorBytes \* MAX_DESCRIPTOR_BYTES

Durations == {"connect_timeout", "io_timeout", "reconnect_initial", "reconnect_max"}

ASSUME BridgeConfigAssumption ==
  /\ Defaults \in [Durations -> Nat \ {0}] /\ Maxima \in [Durations -> Nat]
  /\ \A name \in Durations : Defaults[name] <= Maxima[name]
  /\ Defaults["reconnect_initial"] <= Defaults["reconnect_max"]
  /\ MaxDescriptorBytes \in Nat
  /\ None \notin Nat /\ Junk \notin Nat /\ None # Junk

Urls == [scheme: {"ws", "wss", "http"}, host: BOOLEAN, port: BOOLEAN,
         path: {"/camera/v1/stream", "other"}, userinfo: BOOLEAN, query: BOOLEAN]

\* parse_server_url
url_accepted(url) ==
  /\ url.scheme = "ws"
  /\ url.host /\ url.port
  /\ url.path = "/camera/v1/stream"
  /\ ~url.userinfo /\ ~url.query

\* parse_milliseconds, None for an error
parse_milliseconds(raw, name) ==
  LET value == IF raw = None THEN Defaults[name] ELSE raw IN
  IF value \in 1 .. Maxima[name] THEN value ELSE None

\* Config::from_lookup: an environment is a URL or None, a device path (absolute
\* or not; unset is the default, which is) and the four raw durations.
from_lookup(environment) ==
  LET value == [name \in Durations |-> parse_milliseconds(environment.raw[name], name)] IN
  IF /\ environment.url # None /\ url_accepted(environment.url)
     /\ environment.device_absolute
     /\ \A name \in Durations : value[name] # None
     /\ value["reconnect_initial"] <= value["reconnect_max"]
    THEN value
    ELSE None

StreamDescriptor ==
  [ type    |-> <<"string", "camera_stream_descriptor">>,
    version |-> <<"number", "1">>,
    format  |-> <<"string", "MJPEG">>,
    width   |-> <<"number", "1920">>,
    height  |-> <<"number", "1080">>,
    fps     |-> <<"number", "30">>,
    max_frame_bytes |-> <<"number", "4194304">> ]

\* parse_descriptor with validate: an object with these members and no other, each
\* once, or (serde reads a struct from it too) the array of their values in order,
\* which members names by place.
parse_descriptor(text) ==
  /\ text.size <= MaxDescriptorBytes
  /\ text.form \in {"object", "array"}
  /\ text.members = StreamDescriptor
=============================================================================
