-------------------------- MODULE MCElasticRelease --------------------------
(* TLC instances of ElasticRelease: web and worker use each other, and the  *)
(* second version adds a mailer that web uses too.                          *)
EXTENDS ElasticRelease

MCUses == {<<"web", "worker">>, <<"worker", "web">>, <<"web", "mail">>}
MCShape == [v \in Versions |->
    IF v = 1 THEN {"web", "worker"} ELSE {"web", "worker", "mail"}]
MCSmallUses == {<<"web", "worker">>, <<"worker", "web">>}
MCSmallShape == [v \in Versions |->
    IF v = 2 THEN {"web", "worker"} ELSE {"web"}]
=============================================================================
