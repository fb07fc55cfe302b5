---------------------------- MODULE MCHttpServer ----------------------------
(* Values for TLC: one request for each way serve_client() can end.        *)
EXTENDS HttpServer

Req(l, v, n, m, f) == [line |-> l, version |-> v, length |-> n, method |-> m, found |-> f]

MCRequests == {Req(FALSE, FALSE, "none", "other", FALSE),
               Req(TRUE, FALSE, "none", "GET", TRUE),
               Req(TRUE, TRUE, "none", "GET", TRUE),
               Req(TRUE, TRUE, "ok", "POST", TRUE),
               Req(TRUE, TRUE, "none", "POST", TRUE),
               Req(TRUE, TRUE, "bad", "GET", FALSE),
               Req(TRUE, TRUE, "ok", "other", FALSE)}
=============================================================================
