------------------------------ MODULE MCAgentPods ------------------------------
(* Values for the model checker.                                            *)
EXTENDS AgentPods

CONSTANTS a1, a2

MCIdentity ==
  [a \in Agents |-> [id |-> a, project |-> "p1", role |-> IF a = a1 THEN "mate" ELSE "deckhand",
                     mode |-> IF a = a1 THEN "crew" ELSE "job", agent |-> a]]

MCEntries == {NoEntry, [prefix |-> "bd", gitURL |-> "repo", branch |-> "", image |-> "special",
                        storageClass |-> "fast"]}

Bare == [grpcAddr |-> "grpc", httpAddr |-> "http", coopImage |-> "base", serviceAccount |-> "",
         oauthSecret |-> "", tokenSecret |-> "", gitSecret |-> "", natsURL |-> "",
         natsSecret |-> "", muxURL |-> "", muxSecret |-> "", githubSecret |-> ""]

Full == [Bare EXCEPT !.serviceAccount = "agents", !.oauthSecret = "oauth", !.tokenSecret = "token",
                     !.gitSecret = "git", !.natsURL = "nats", !.natsSecret = "nats",
                     !.muxURL = "mux", !.muxSecret = "mux", !.githubSecret = "github"]

MCConfigs == {Bare, Full}
MCNoteImages == {"", "own"}
MCModels == {"", "sonnet"}
=============================================================================
