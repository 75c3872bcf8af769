-------------------------- MODULE MCAdminControl --------------------------
(* Small instances of AdminControl: one key of each kind and the release.  *)
EXTENDS AdminControl

CONSTANTS info, u1, u2

MCKeys == {"ttl", "relay", "log", "url", "file", "sha"}
MCKind == [k \in MCKeys |-> CASE k = "ttl" -> "duration" [] k = "relay" -> "bool" [] OTHER -> "string"]
MCOffered == [k \in MCKeys |-> CASE k = "ttl" -> {5, 20} [] k = "relay" -> {FALSE} [] k = "log" -> {Empty}
                                [] k = "url" -> {Empty, Site} [] OTHER -> {}]
MCDefaults == [k \in MCKeys |-> CASE k = "ttl" -> 30 [] k = "relay" -> TRUE [] k = "log" -> info
                                 [] OTHER -> Empty]
MCLegacies == [k \in MCKeys |-> CASE k = "ttl" -> <<40>> [] k = "url" -> <<Site>> [] OTHER -> Empty]

Mix(ops, n, f, k) == [ops |-> ops, requests |-> n, faults |-> f, crashes |-> k]

MCMixes == {
  Mix({"login", "refresh", "logout", "expire"}, 5, 1, 0),
  Mix({"login", "refresh", "change", "me"}, 5, 0, 0),
  Mix({"login", "refresh", "change"}, 4, 1, 1),
  Mix({"login", "get", "settings"}, 4, 1, 0),
  Mix({"login", "get", "settings"}, 3, 1, 2),
  Mix({"login", "upload", "update"}, 4, 0, 1),
  Mix({"login", "get", "settings", "upload", "update"}, 3, 0, 1),
  Mix({"login", "get", "settings", "upload"}, 4, 0, 0)
}

=============================================================================
