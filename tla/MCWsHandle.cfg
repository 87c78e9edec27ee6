CONSTANTS
    Given = {"transport", "uri", "host", "username", "password", "headers"}
    UriParts = {"uri_schema", "uri_host", "uri_path", "uri_userinfo", "uri_password"}
    MaxBlocks = 1
SPECIFICATION HandleSpec
INVARIANTS
    NoDanglingPointer
    AllGivenBack
CHECK_DEADLOCK FALSE
