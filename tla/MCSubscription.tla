---------------------------- MODULE MCSubscription ----------------------------
(* A fleet with two labels in use twice, HK-A and US-A, and overlay links to   *)
(* de, which no group takes.                                                   *)
EXTENDS Subscription

NearNodes == {"hk-gcp-a", "hk-home-a", "jp-gcp-a"}
FarNodes  == {"us-gcp-a", "us-home-a", "de-gcp-a"}

NodeRegion == [x \in NearNodes \cup FarNodes |->
                CASE x \in {"hk-gcp-a", "hk-home-a"} -> "hk"
                  [] x = "jp-gcp-a" -> "jp"
                  [] x \in {"us-gcp-a", "us-home-a"} -> "us"
                  [] x = "de-gcp-a" -> "de"]

NodeLabel == [x \in NearNodes \cup FarNodes |->
               CASE x \in {"hk-gcp-a", "hk-home-a"} -> "HK-A"
                 [] x = "jp-gcp-a" -> "JP-A"
                 [] x \in {"us-gcp-a", "us-home-a"} -> "US-A"
                 [] x = "de-gcp-a" -> "DE-A"]

NodePortBase == [n \in NearNodes |->
                  CASE n = "hk-gcp-a" -> 20000 [] n = "hk-home-a" -> 20010 [] OTHER -> 20020]

Lists == {<<>>, <<"us-gcp-a">>, <<"de-gcp-a", "us-home-a", "us-gcp-a">>}
=============================================================================
