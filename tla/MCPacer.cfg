SPECIFICATION Spec
CONSTANTS
  Unset = Unset
  r1 = r1
  r2 = r2
  r3 = r3
  repo = repo
  domain = domain
  github = github
  rdap = rdap
  Requests = {r1, r2, r3}
  Urls = {repo, domain}
  Hosts = {github, rdap}
  UrlOf <- MCUrlOf
  HostOf <- MCHostOf
  Retries = 1
  Slots = 1
PROPERTIES
  Spaced
  AskedOnce
  EveryRequestReturns
  ImplementsLookups
