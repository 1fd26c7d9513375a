---------------------------- MODULE MCEdgeBridge ----------------------------
(* EdgeBridge with seven environments, five of them refused, texts of      *)
(* which one is the descriptor and one is too long, addresses that refuse, *)
(* fail in the handshake or answer, and a device that is right, of another *)
(* format or failing its writes.                                           *)
EXTENDS EdgeBridge

MCDefaults == [connect_timeout |-> 2, io_timeout |-> 3, reconnect_initial |-> 1, reconnect_max |-> 5]
MCMaxima   == [connect_timeout |-> 2, io_timeout |-> 5, reconnect_initial |-> 6, reconnect_max |-> 8]

Url == [scheme |-> "ws", host |-> TRUE, port |-> TRUE, path |-> "/camera/v1/stream",
        userinfo |-> FALSE, query |-> FALSE]

Unset == [name \in Durations |-> None]

MCEnvironments ==
  { [url |-> Url, device_absolute |-> TRUE, raw |-> r] :
      r \in { Unset,
              [Unset EXCEPT !["reconnect_initial"] = 2, !["io_timeout"] = 4],
              [Unset EXCEPT !["reconnect_initial"] = 6],
              [Unset EXCEPT !["reconnect_initial"] = 0],
              [Unset EXCEPT !["io_timeout"] = Junk] } }
  \cup { [url |-> [Url EXCEPT !.path = "other"], device_absolute |-> TRUE, raw |-> Unset],
         [url |-> Url, device_absolute |-> FALSE, raw |-> Unset] }

MCNetworks == { <<>>, <<"refused", "answers">>, <<"handshake_fails", "answers">> }

Text(size, members) == [size |-> size, form |-> "object", members |-> members]

MCTexts ==
  { Text(9, StreamDescriptor), Text(10, StreamDescriptor),
    Text(9, [StreamDescriptor EXCEPT !.width = <<"number", "1280">>]) }

Dev(format, writes) ==
  [exists |-> TRUE, character |-> TRUE, opens |-> TRUE, device_caps |-> None,
   capabilities |-> {"OUTPUT", "READWRITE"}, format |-> format, writes |-> writes]

MCDevices ==
  { Dev("MJPG 1920x1080", TRUE), Dev("MJPG 1920x1080", FALSE), Dev("other", TRUE) }
=============================================================================
