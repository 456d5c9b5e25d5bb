-------------------------- MODULE MCWorkloadTrial --------------------------
(* Instance for TLC: a service with a health check and one without; one    *)
(* redirect allowed, so that the limit is met before the addresses run out.*)
EXTENDS WorkloadTrial, TLC

MCServices == {"web", "db"}
MCProbed == {"db"}
MCUrls == {"u1", "u2"}

Get(auth, asserts) ==
    [tool |-> "http", method |-> "GET", auth |-> auth, asserts |-> asserts, url |-> "u1"]
Post(auth, asserts) == [Get(auth, asserts) EXCEPT !.method = "POST"]

Login == <<Post("capture", {"success"}), Get("use", {"text"})>>
Ping == <<Get("none", {"success"})>>
Again == <<Get("capture", {"text"}), Get("capture", {"success"}), Get("use", {"redirect"})>>
Hidden == <<Get("use", {"success"}), Post("capture", {"success"})>>
Browse == <<[Get("none", {"text"}) EXCEPT !.tool = "browser"]>>

MCPlans == {<<>>, <<Login, Ping>>, <<Again, Browse, Hidden>>}
=============================================================================
