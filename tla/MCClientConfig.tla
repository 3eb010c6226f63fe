--------------------------- MODULE MCClientConfig ---------------------------
(***************************************************************************)
(* ClientConfig over every Secret with small values in each of its keys.   *)
(***************************************************************************)
EXTENDS ClientConfig

Secret(ids, keys, urls, regions, certs, iamUrls) ==
  [accessKeyId : ids, secretAccessKey : keys, endpoint : urls,
   region : regions, tlsCert : certs, iamEndpoint : iamUrls]

EverySecret ==
  Secret({None, "id1"}, {"", "key1"}, {"", "http", "https"}, {"", "us-west-2"},
         {None, "", "PEM", "garbage"}, {None, "", "http", "https"})

AnotherTenant ==
  Secret({"id2"}, {"key2"}, {"https"}, {"us-east-1"}, {None}, {None})

============================================================================
