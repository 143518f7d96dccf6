--------------------------- MODULE MCServerConnections ---------------------------
EXTENDS ServerConnections
MCConns == <<"c1", "c2">>
MCArrivals == [k \in {"impl", "ssl", "pipe"}, s \in {"throws", "lists"} |->
                 IF k = "impl" /\ s = "throws" THEN 2 ELSE 1]
MCExpiring == {<<"impl", "lists">>, <<"ssl", "throws">>, <<"pipe", "throws">>}
====
