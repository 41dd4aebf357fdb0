---------------------------- MODULE MCRedisAsync ----------------------------
EXTENDS RedisAsync
=============================================================================
