------------------------ MODULE MCFunAsrConnection ------------------------
(***************************************************************************)
(* Finite instances of FunAsrConnection.                                   *)
(***************************************************************************)
EXTENDS FunAsrConnection

Text(error, text, mode, is_final, is_end) ==
    [kind |-> "text", error |-> error, text |-> text, mode |-> mode,
     is_final |-> is_final, is_end |-> is_end]

Other(kind) ==
    [Text(FALSE, FALSE, "online", FALSE, FALSE) EXCEPT !.kind = kind]

\* One reply for each way through handle_incoming and emit_server_message.
EveryReply ==
    { Text(TRUE,  TRUE,  "online",  TRUE,  TRUE),    \* an error, whatever else it says
      Text(FALSE, TRUE,  "online",  FALSE, FALSE),   \* Partial
      Text(FALSE, TRUE,  "offline", FALSE, FALSE),   \* Final by its mode
      Text(FALSE, TRUE,  "online",  TRUE,  FALSE),   \* Final by is_final
      Text(FALSE, FALSE, "online",  TRUE,  TRUE),    \* the acknowledgement
      Text(FALSE, TRUE,  "offline", TRUE,  TRUE),    \* with the last result
      Text(FALSE, TRUE,  "online",  FALSE, TRUE),    \* an end without is_final
      Other("malformed"), Other("close"), Other("control") }

\* The replies that matter to progress.
FewReplies ==
    { Text(FALSE, TRUE,  "online",  FALSE, FALSE),
      Text(FALSE, FALSE, "online",  TRUE,  TRUE),
      Other("close") }
=============================================================================
