----------------------------- MODULE MCUartLoad -----------------------------
(***************************************************************************)
(* Command lines for both kinds of board, files that are too short, as long  *)
(* as they say, longer, shorter, and with a header just in and out of range. *)
(***************************************************************************)
EXTENDS UartLoad

MCOptions ==
  {o \in [soc : {"ast1060", "ast2700", "ast2700-app"}, wait : BOOLEAN,
          monitor : BOOLEAN, verbose : BOOLEAN, stage2 : BOOLEAN, raw : BOOLEAN,
          chunk : {0, 2}] :
     \* stage2 follows a first stage; the rarer options one at a time.
     /\ o.stage2 => o.soc # "ast2700-app"
     /\ o.raw => o.wait /\ o.chunk = 2
     /\ o.monitor => ~o.verbose
     /\ o.chunk = 0 => ~o.verbose /\ ~o.monitor}

File(bytes, expected) == [bytes |-> bytes, expected |-> expected]
MCFiles == {<<File(3, 3), File(2, 2)>>, <<File(3, 2), File(3, 3)>>,
            <<File(1, 1), File(2, 2)>>, <<File(2, 6), File(2, 2)>>,
            <<File(2, 5), File(2, 2)>>,
            <<File(2, 2), File(1, 1)>>}
=============================================================================
