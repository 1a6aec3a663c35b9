----------------------------- MODULE MCHttpServer -----------------------------
(***************************************************************************)
(* HttpServer for TLC.  A behaviour in which the user alone stops the        *)
(* server has a second session; one in which a client stops it, or in which *)
(* listen gives up, has not: it would not get past start().                 *)
(***************************************************************************)
EXTENDS HttpServer

MCEndings  == {{"user"}, {"shutdown", "command"}, {"accept error"}}
MCRestarts == {{"user"}}

MCRemoteEndings == {{"shutdown"}}
=============================================================================
