----------------------------- MODULE MCWebServer -----------------------------
EXTENDS WebServer

CONSTANTS c1

Page == [uri |-> "page", head |-> 1, form |-> 0]
Long == [uri |-> "page", head |-> 2, form |-> 0]
Form == [uri |-> "form", head |-> 1, form |-> 1]
Huge == [uri |-> "form", head |-> 1, form |-> 2]
Lost == [uri |-> "lost", head |-> 1, form |-> 0]

MCScript == [c \in {c1} |-> {<<Page, Form>>, <<Form, Page>>, <<Long>>, <<Lost>>, <<Huge>>}]
MCRoutes == <<[type |-> "FILTER", uris |-> {}],
              [type |-> "EXACT", uris |-> {"page"}],
              [type |-> "PREFIX", uris |-> {"form"}]>>
MCBody == [u \in {"page", "form", "lost"} |->
             CASE u = "page" -> 2 [] u = "form" -> NoBody [] u = "lost" -> 1]
=============================================================================
